---------------------------- MODULE Spec2Model ----------------------------
(***************************************************************************)
(* Model of the cooperativas ETL pipeline: the entity-name canonicalizers, *)
(* the account hierarchy builders of the dashboard pages, the              *)
(* income-statement de-accumulator, the indicator extractor and the        *)
(* balance consolidator.                                                   *)
(*                                                                         *)
(* Text is modelled character by character: a string is a tuple of         *)
(* one-character strings, so that strip, startswith, replace, endswith and *)
(* split/join do what the Python string methods do.  A missing value       *)
(* (NaN / None / NaT) is the one-element tuple NaN, which no text equals.  *)
(***************************************************************************)
EXTENDS Integers, Sequences, FiniteSets, TLC

VARIABLES
    \* canonicalizer runs
    piezas,      \* the pieces the raw name handed to the canonicalizer is made of
    variante,    \* which canonicalizer is applied: "balance", "camel" or "pyg"
    nombres,     \* the raw name followed by the result of each application
    \* account hierarchy
    cuentas,     \* the distinct (codigo, cuenta) pairs of the table, in table order
    pagina,      \* the page that builds the tree: "balance" or "pyg"
    jerarquia,   \* the tree built
    construida,  \* whether the tree has been built
    \* income statement
    ind_raw,     \* the rows of indicadores_raw.parquet
    pyg,         \* the rows of pyg.parquet written by procesar_pyg
    pyg_estado,  \* "listo" before the run, then "ok" or "error"
    \* balance consolidator
    zips,            \* the containers in the balances directory
    balance,         \* balance.parquet: whether it exists and its rows
    metadata,        \* metadata.json
    balance_estado,  \* "listo" before the first run, then how the last run ended
    balance_previo,  \* balance.parquet as the last run found it
    zips_ultima,     \* the directory as the last run found it
    zips_previa,     \* the directory as the run before the last found it
    \* balance consolidator, the run taken step by step
    archivo,         \* what is at the path of balance.parquet: "ausente", "completo"
                     \* or "parcial"
    escritura,       \* where the run is: "listo", "escribiendo", "hecho", "error", "fallo"
    pendiente,       \* the table and the metadata the run is writing
    borrados,        \* how many times the balances directory was emptied
    \* indicator extractor
    indicadores_dir, \* the containers in the indicators directory
    indicadores,     \* the rows of indicadores.parquet
    camel_estado,    \* "listo" before the run, then "ok" or "sin datos"
    \* download script
    ahora,           \* datetime.now(): the year and the month of the run
    fecha_max_datos, \* fecha_max of metadata.json, when the file exists
    portal,          \* whether the portal answers, and the years it lists a link for
    carpeta,         \* BALANCES_DIR: the files in it, each with its name and content
    carpeta_antes,   \* BALANCES_DIR as the run found it
    download_id,     \* the link main found
    paso             \* "listo", "descargando", then "exit 0", "exit 1", "exit 2" or
                     \* "excepcion"

varsNombre == <<piezas, variante, nombres>>

varsJerarquia == <<cuentas, pagina, jerarquia, construida>>

varsPyg == <<ind_raw, pyg, pyg_estado>>

varsBalance ==
    <<zips, balance, metadata, balance_estado, balance_previo, zips_ultima, zips_previa>>

varsCamel == <<indicadores_dir, indicadores, camel_estado>>

varsCorrida == <<archivo, escritura, pendiente, borrados>>

varsDescarga ==
    <<ahora, fecha_max_datos, portal, carpeta, carpeta_antes, download_id, paso>>

vars ==
    <<varsNombre, varsJerarquia, varsPyg, varsBalance, varsCamel, varsCorrida, varsDescarga>>

-----------------------------------------------------------------------------
(* Values shared by every part of the model *)

NaN == <<"NaN">>

isna(v) == v = NaN

(* Code-point order of the characters the model uses (Python compares      *)
(* strings by code point).                                                 *)
Alfabeto ==
  <<"\t"," ","\"","-",".","0","1","2","3","4","5","6","7","8","9","A","B","C","D","E","F",
      "G","H","I","J","K","L","M","N","O","P","Q","R","S","T","U","V","W","X","Y","Z","_","a",
      "b","c","d","e","f","g","h","i","j","k","l","m","n","o","p","q","r","s","t","u","v",
      "w","x","y","z","É","Ñ","é">>

\* the position of every character of the alphabet
Posicion ==
    [c \in {Alfabeto[i] : i \in 1..Len(Alfabeto)} |->
        CHOOSE i \in 1..Len(Alfabeto) : Alfabeto[i] = c]

Ord(c) == Posicion[c]

Minusculas ==
  <<"a","b","c","d","e","f","g","h","i","j","k","l","m","n","o","p","q","r","s","t","u","v",
      "w","x","y","z","é">>

Mayusculas ==
  <<"A","B","C","D","E","F","G","H","I","J","K","L","M","N","O","P","Q","R","S","T","U","V",
      "W","X","Y","Z","É">>

-----------------------------------------------------------------------------
(* Python string methods *)

IsSpace(c) == c \in {" ", "\t"}

\* the upper-case letter of every lower-case letter
EnMayuscula ==
    [c \in {Minusculas[i] : i \in 1..Len(Minusculas)} |->
        Mayusculas[CHOOSE i \in 1..Len(Minusculas) : Minusculas[i] = c]]

UpperChar(c) == IF c \in DOMAIN EnMayuscula THEN EnMayuscula[c] ELSE c

\* str.upper()
Upper(s) == [i \in 1..Len(s) |-> UpperChar(s[i])]

\* the index of the first element of s that satisfies Es, Len(s) + 1 when none does
Primero(s, Es(_)) ==
    IF \E i \in 1..Len(s) : Es(s[i])
    THEN CHOOSE i \in 1..Len(s) : Es(s[i]) /\ \A j \in 1..(i - 1) : ~Es(s[j])
    ELSE Len(s) + 1

\* the index of the last element of s that satisfies Es, 0 when none does
Ultimo(s, Es(_)) ==
    IF \E i \in 1..Len(s) : Es(s[i])
    THEN CHOOSE i \in 1..Len(s) : Es(s[i]) /\ \A j \in (i + 1)..Len(s) : ~Es(s[j])
    ELSE 0

NoEspacio(c) == ~IsSpace(c)

\* str.lstrip()
LStrip(s) == SubSeq(s, Primero(s, NoEspacio), Len(s))

\* str.rstrip()
RStrip(s) == SubSeq(s, 1, Ultimo(s, NoEspacio))

\* str.strip()
Strip(s) == RStrip(LStrip(s))

\* str.startswith(p)
StartsWith(s, p) == Len(s) >= Len(p) /\ SubSeq(s, 1, Len(p)) = p

\* str.endswith(p)
EndsWith(s, p) == Len(s) >= Len(p) /\ SubSeq(s, Len(s) - Len(p) + 1, Len(s)) = p

\* the positions of s where old occurs
Ocurrencias(s, old) ==
    {i \in 1..(Len(s) - Len(old) + 1) : SubSeq(s, i, i + Len(old) - 1) = old}

\* str.replace(old, new): every non-overlapping occurrence, left to right
RECURSIVE Replace(_, _, _)
Replace(s, old, new) ==
    LET occ == Ocurrencias(s, old)
    IN IF occ = {} THEN s
       ELSE LET i == CHOOSE x \in occ : \A y \in occ : x <= y
            IN SubSeq(s, 1, i - 1) \o new
                 \o Replace(SubSeq(s, i + Len(old), Len(s)), old, new)

\* whether old occurs in s (the Python "old in s")
Contains(s, old) == Ocurrencias(s, old) # {}

\* the first word of s (s starts with a non-space character)
PrimeraPalabra(s) == SubSeq(s, 1, Primero(s, IsSpace) - 1)

\* str.split(): the words between runs of whitespace
RECURSIVE Split(_)
Split(s) ==
    LET t == LStrip(s) IN
    IF t = <<>> THEN <<>>
    ELSE LET w == PrimeraPalabra(t)
         IN <<w>> \o Split(SubSeq(t, Len(w) + 1, Len(t)))

\* ' '.join(words)
RECURSIVE Join(_)
Join(ws) ==
    IF ws = <<>> THEN <<>>
    ELSE IF Len(ws) = 1 THEN ws[1]
    ELSE ws[1] \o <<" ">> \o Join(Tail(ws))

\* lexicographic comparison of two strings by code point: a < b
StrLess(a, b) ==
    LET n == IF Len(a) < Len(b) THEN Len(a) ELSE Len(b)
        distintos == {i \in 1..n : a[i] # b[i]}
    IN IF distintos = {} THEN Len(a) < Len(b)
       ELSE LET k == CHOOSE i \in distintos : \A j \in distintos : i <= j
            IN Ord(a[k]) < Ord(b[k])

RECURSIVE Concat(_)
Concat(ss) == IF ss = <<>> THEN <<>> ELSE Head(ss) \o Concat(Tail(ss))

-----------------------------------------------------------------------------
(* Entity-name canonicalizers *)

prefijos ==
  << <<"C","O","O","P","E","R","A","T","I","V","A"," ","D","E"," ","A","H","O","R","R","O"," ",
       "Y"," ","C","R","E","D","I","T","O"," ">>,
     <<"C","O","O","P","E","R","A","T","I","V","A"," ","D","E"," ","A","H","O","R","R","O"," ",
       "Y"," ","C","R","É","D","I","T","O"," ">>,
     <<"C","O","O","P","."," ","D","E"," ","A","H","O","R","R","O"," ","Y"," ","C","R","E","D",
       "I","T","O"," ">> >>

LIMITADA == <<" ","L","I","M","I","T","A","D","A">>

LTDA == <<" ","L","T","D","A">>

LTDA_PUNTO == <<"L","T","D","A",".">>

CORRECCIONES_NOMBRE ==
  <<
    << <<"A","L","F","O","N","S","O"," ","J","A","R","A","M","I","L","L","O"," ","L","E","O","N",
           " ","C","C","C">>,
       <<"A","L","F","O","N","S","O"," ","J","A","R","A","M","I","L","L","O"," ","L","E","O","N",
           " ","C","A","J","A">> >>,
    << <<"F","E","R","N","A","N","D","O"," ","D","A","Q","U","I","L","E","M","A">>,
       <<"F","E","R","N","A","N","D","O"," ","D","A","Q","U","I","L","E","M","A"," ","L","T","D",
           "A">> >>,
    << <<"V","I","S","I","O","N"," ","D","E"," ","L","O","S"," ","A","N","D","E","S"," ","V","I",
           "S","A","N","D","E","S">>,
       <<"V","I","S","I","O","N"," ","D","E"," ","L","O","S"," ","A","N","D","E","S"," ","V","I",
           "S"," ","A","N","D","E","S">> >>,
    << <<"E","D","U","C","A","D","O","R","E","S"," ","D","E"," ","L","O","J","A"," ","L","T","D",
           "A">>,
       <<"E","D","U","C","A","D","O","R","E","S"," ","D","E"," ","L","O","J","A"," ","-"," ","C",
           "A","C","E","L"," ","L","T","D","A">> >>,
    << <<"S","U","M","A","K"," ","S","I","S","A">>,
       <<"S","I","S","A">> >>,
    << <<"D","E"," ","L","A"," ","P","E","Q","U","E","N","A"," ","E","M","P","R","E","S","A"," ",
           "C","A","C","P","E"," ","Z","A","M","O","R","A"," ","L","T","D","A">>,
       <<"D","E"," ","L","A"," ","P","E","Q","U","E","Ñ","A"," ","E","M","P","R","E","S","A"," ",
           "C","A","C","P","E"," ","Z","A","M","O","R","A"," ","C","H","I","N","C","H","I","P",
           "E"," ","L","T","D","A">> >>,
    << <<"C","A","M","A","R","A"," ","D","E"," ","C","O","M","E","R","C","I","O"," ","D","E"," ",
           "S","A","N","T","O"," ","D","O","M","I","N","G","O"," ","E","N"," ","L","I","Q","U",
           "I","D","A","C","I","O","N">>,
       <<"C","A","M","A","R","A"," ","D","E"," ","C","O","M","E","R","C","I","O"," ","D","E"," ",
           "S","A","N","T","O"," ","D","O","M","I","N","G","O">> >>,
    << <<"P","A","R","A"," ","L","A"," ","V","I","V","I","E","N","D","A"," ","O","R","D","E","N",
           " ","Y"," ","S","E","G","U","R","I","D","A","D">>,
       <<"O","R","D","E","N"," ","Y"," ","S","E","G","U","R","I","D","A","D"," ","\"","O","Y",
           "S","\"">> >>
  >>

\* for prefijo in prefijos: if nombre.upper().startswith(prefijo): cut it; break
quitar_prefijo_sin_upper(nombre) ==
    IF \E i \in 1..Len(prefijos) : StartsWith(nombre, prefijos[i])
    THEN LET i == CHOOSE j \in 1..Len(prefijos) :
                     /\ StartsWith(nombre, prefijos[j])
                     /\ \A k \in 1..(j - 1) : ~StartsWith(nombre, prefijos[k])
         IN SubSeq(nombre, Len(prefijos[i]) + 1, Len(nombre))
    ELSE nombre

quitar_prefijo(nombre) ==
    LET mayusculas == Upper(nombre)
    IN IF \E i \in 1..Len(prefijos) : StartsWith(mayusculas, prefijos[i])
       THEN LET i == CHOOSE j \in 1..Len(prefijos) :
                        /\ StartsWith(mayusculas, prefijos[j])
                        /\ \A k \in 1..(j - 1) : ~StartsWith(mayusculas, prefijos[k])
            IN SubSeq(nombre, Len(prefijos[i]) + 1, Len(nombre))
       ELSE nombre

\* LIMITADA -> LTDA, one trailing period after LTDA removed, whitespace collapsed
unificar_sufijo(nombre) ==
    LET n1 == Replace(nombre, LIMITADA, LTDA)
        n2 == IF EndsWith(n1, LTDA_PUNTO) THEN SubSeq(n1, 1, Len(n1) - 1) ELSE n1
    IN Join(Split(n2))

\* procesar_balance_cooperativas.normalizar_nombre
normalizar_nombre(nombre) ==
    IF isna(nombre) THEN <<>>
    ELSE unificar_sufijo(Strip(quitar_prefijo(Strip(nombre))))

aplicar_correcciones(nombre) ==
    IF \E i \in 1..Len(CORRECCIONES_NOMBRE) : CORRECCIONES_NOMBRE[i][1] = nombre
    THEN CORRECCIONES_NOMBRE[CHOOSE i \in 1..Len(CORRECCIONES_NOMBRE) :
                                 CORRECCIONES_NOMBRE[i][1] = nombre][2]
    ELSE nombre

\* procesar_camel.normalizar_nombre
normalizar_nombre_camel(nombre) ==
    IF isna(nombre) THEN <<>>
    ELSE aplicar_correcciones(unificar_sufijo(Strip(quitar_prefijo(Strip(nombre)))))

\* procesar_pyg.normalizar_nombre_cooperativa
normalizar_nombre_cooperativa(nombre) ==
    IF isna(nombre) THEN nombre
    ELSE unificar_sufijo(Strip(nombre))

-----------------------------------------------------------------------------
(* Canonicalizer runs: a raw name is drawn, then canonicalized repeatedly *)

MaxPiezas == 3

MaxPasadas == 2

\* the pieces raw names are assembled from
Piezas ==
  << <<>>,
     <<" ">>,
     <<"C","O","O","P","E","R","A","T","I","V","A"," ","D","E"," ","A","H","O","R","R","O"," ",
       "Y"," ","C","R","E","D","I","T","O"," ">>,
     <<"c","o","o","p","."," ","d","e"," ","a","h","o","r","r","o"," ","y"," ","c","r","e","d",
       "i","t","o"," ">>,
     <<"X">>,
     <<" ","L","I","M","I","T","A","D","A">>,
     <<".">>,
     <<" ","L","T","D","A">>,
     <<"S","U","M","A","K"," ","S","I","S","A">>,
     <<"C","o","o","p","e","r","a","t","i","v","a"," ","d","e"," ","A","h","o","r","r","o"," ",
       "y"," ","C","r","é","d","i","t","o"," ">>,
     <<"S","A","N"," "," ","J","O","S","E">>,
     <<"L","A"," ","L","I","M","I","T","A","D","A"," ","U","N","O">> >>


\* pieces combined freely, and the pieces that are a legal-form prefix or a name
PiezasLibres == 1..9
PiezasPrefijo == {3, 4, 10}
PiezasNombre == {5, 9, 11, 12}

RECURSIVE Secuencias(_, _)
Secuencias(S, n) ==
    IF n = 0 THEN {<<>>}
    ELSE {<<x>> \o s : x \in S, s \in Secuencias(S, n - 1)}

EntradasLibres == Secuencias(PiezasLibres, MaxPiezas)

\* prefix, name, ' LIMITADA', with optional whitespace around and an optional period
EntradasForma ==
    { <<w1, p, w2, x, w3, 6, d, w4>> :
        w1 \in {1, 2}, p \in PiezasPrefijo,
        w2 \in {1, 2}, x \in PiezasNombre,
        w3 \in {1, 2}, d \in {1, 7},
        w4 \in {1, 2} }

\* a missing name (None / NaN) is the entry <<0>>
EntradaNula == <<0>>

Texto(ps) ==
    IF ps = EntradaNula THEN NaN
    ELSE Concat([i \in 1..Len(ps) |-> Piezas[ps[i]]])

Canonicalizador(v, nombre) ==
    CASE v = "balance" -> normalizar_nombre(nombre)
      [] v = "camel"   -> normalizar_nombre_camel(nombre)
      [] v = "pyg"     -> normalizar_nombre_cooperativa(nombre)

InitNombre0 ==
    /\ piezas \in EntradasLibres \cup EntradasForma \cup {EntradaNula}
    /\ variante \in {"balance", "camel", "pyg"}
    /\ nombres = <<Texto(piezas)>>

Canonicalizar ==
    /\ nombres # <<>>
    /\ Len(nombres) <= MaxPasadas
    /\ nombres' = Append(nombres, Canonicalizador(variante, nombres[Len(nombres)]))
    /\ UNCHANGED <<piezas, variante>>


-----------------------------------------------------------------------------
(* Account hierarchy builders of the dashboard pages *)

\* the distinct (codigo, cuenta) pairs the tables may hold
ParesCuenta ==
  << << <<"1">>, <<"A">> >>,
     << <<"1">>, <<"B">> >>,
     << <<"8">>, <<"C">> >>,
     << <<"1","1">>, <<"D">> >>,
     << <<"1","1">>, <<"E">> >>,
     << <<"2","1">>, <<"F">> >>,
     << <<"8","1">>, <<"G">> >>,
     << <<"1","1","0","1">>, <<"H">> >>,
     << <<"1","2","0","1">>, <<"I">> >>,
     << <<"1","1","0","1","0","5">>, <<"J">> >>,
     << <<"1","2","0","1","0","5">>, <<"K">> >>,
     << <<"1","1","1">>, <<"L">> >>,
     << <<"1","A">>, <<"M">> >> >>

\* the pairs numbered by S, in ascending or descending order of their number
RECURSIVE EnOrden(_, _)
EnOrden(S, asc) ==
    IF S = {} THEN <<>>
    ELSE LET i == IF asc THEN CHOOSE x \in S : \A y \in S : x <= y
                  ELSE CHOOSE x \in S : \A y \in S : x >= y
         IN <<ParesCuenta[i]>> \o EnOrden(S \ {i}, asc)

Digitos == {"0","1","2","3","4","5","6","7","8","9"}

\* str.match(r'^[0-9]+$')
EsNumerico(codigo) == codigo # <<>> /\ \A i \in 1..Len(codigo) : codigo[i] \in Digitos

codigos_validos == {<<"1">>, <<"2">>, <<"3">>, <<"4">>, <<"5">>, <<"6">>, <<"7">>}

DictVacio == [x \in {} |-> x]

\* d[k] = v
Put(d, k, v) == [x \in (DOMAIN d) \cup {k} |-> IF x = k THEN v ELSE d[x]]

Nodo(nombre) == [nombre |-> nombre, subcuentas |-> DictVacio]

\* codigo[-1]: the last character instead of the first
Prefijo1Ultimo(codigo) == SubSeq(codigo, Len(codigo), Len(codigo))

\* codigo[0]
Prefijo1(codigo) == SubSeq(codigo, 1, 1)

\* codigo[:2]
Prefijo2(codigo) == SubSeq(codigo, 1, 2)

\* codigo[:4]
Prefijo4(codigo) == SubSeq(codigo, 1, 4)

ConLongitud(filas, n) == SelectSeq(filas, LAMBDA f : Len(f[1]) = n)

\* level 1 of obtener_jerarquia_cuentas: the dict comprehension over n1
RECURSIVE Nivel1Balance(_, _)
Nivel1Balance(jer, filas) ==
    IF filas = <<>> THEN jer
    ELSE LET f == Head(filas)
         IN Nivel1Balance(IF f[1] \in codigos_validos
                          THEN Put(jer, f[1], Nodo(f[2])) ELSE jer,
                          Tail(filas))

\* level 1 of construir_jerarquia_pyg: every 1-character code
RECURSIVE Nivel1Pyg(_, _)
Nivel1Pyg(jer, filas) ==
    IF filas = <<>> THEN jer
    ELSE LET f == Head(filas)
         IN Nivel1Pyg(Put(jer, f[1], Nodo(f[2])), Tail(filas))

\* level 2: attach under the 1-character parent when it is in the tree
RECURSIVE Nivel2(_, _)
Nivel2(jer, filas) ==
    IF filas = <<>> THEN jer
    ELSE LET f == Head(filas)
             parent == Prefijo1(f[1])
         IN Nivel2(IF parent \in DOMAIN jer
                   THEN [jer EXCEPT ![parent].subcuentas = Put(@, f[1], Nodo(f[2]))]
                   ELSE jer,
                   Tail(filas))

\* level 3: attach under the 2-character parent when both ancestors are in the tree
RECURSIVE Nivel3(_, _)
Nivel3(jer, filas) ==
    IF filas = <<>> THEN jer
    ELSE LET f == Head(filas)
             p1 == Prefijo1(f[1])
             p2 == Prefijo2(f[1])
             ok == /\ p1 \in DOMAIN jer
                   /\ p2 \in DOMAIN jer[p1].subcuentas
         IN Nivel3(IF ok
                   THEN [jer EXCEPT ![p1].subcuentas[p2].subcuentas =
                                        Put(@, f[1], Nodo(f[2]))]
                   ELSE jer,
                   Tail(filas))

\* level 4: attach the label under the 4-character parent when all ancestors are there
RECURSIVE Nivel4(_, _)
Nivel4(jer, filas) ==
    IF filas = <<>> THEN jer
    ELSE LET f == Head(filas)
             p1 == Prefijo1(f[1])
             p2 == Prefijo2(f[1])
             p4 == Prefijo4(f[1])
             ok == /\ p1 \in DOMAIN jer
                   /\ p2 \in DOMAIN jer[p1].subcuentas
                   /\ p4 \in DOMAIN jer[p1].subcuentas[p2].subcuentas
         IN Nivel4(IF ok
                   THEN [jer EXCEPT ![p1].subcuentas[p2].subcuentas[p4].subcuentas =
                                        Put(@, f[1], f[2])]
                   ELSE jer,
                   Tail(filas))

\* pages/2_Balance_General.obtener_jerarquia_cuentas, from the de-duplicated pairs
obtener_jerarquia_cuentas(pares) ==
    LET numericas == SelectSeq(pares, LAMBDA f : EsNumerico(f[1]))
        j1 == Nivel1Balance(DictVacio, ConLongitud(numericas, 1))
        j2 == Nivel2(j1, ConLongitud(numericas, 2))
        j3 == Nivel3(j2, ConLongitud(numericas, 4))
    IN Nivel4(j3, ConLongitud(numericas, 6))

\* pages/3_Perdidas_Ganancias.construir_jerarquia_pyg, from the de-duplicated pairs
construir_jerarquia_pyg(pares) ==
    Nivel2(Nivel1Pyg(DictVacio, ConLongitud(pares, 1)), ConLongitud(pares, 2))

InitJerarquia0 ==
    /\ \E S \in SUBSET (1..Len(ParesCuenta)), asc \in BOOLEAN :
           cuentas = EnOrden(S, asc)
    /\ pagina \in {"balance", "pyg"}
    /\ jerarquia = DictVacio
    /\ construida = FALSE

ConstruirJerarquia ==
    /\ pagina # ""
    /\ ~construida
    /\ jerarquia' = IF pagina = "balance"
                    THEN obtener_jerarquia_cuentas(cuentas)
                    ELSE construir_jerarquia_pyg(cuentas)
    /\ construida' = TRUE
    /\ UNCHANGED <<cuentas, pagina>>


-----------------------------------------------------------------------------
(* Tables: a table is a sequence of rows (records); dates are month numbers *)

\* the month-end date of month mes of year anio, as a month number
Fecha(anio, mes) == anio * 12 + (mes - 1)

\* fecha.dt.year
Anio(fecha) == fecha \div 12

\* fecha.dt.month
Mes(fecha) == (fecha % 12) + 1

SEGMENTO_1 == <<"S","E","G","M","E","N","T","O"," ","1">>

SEGMENTO_2 == <<"S","E","G","M","E","N","T","O"," ","2">>

RECURSIVE SumaSeq(_)
SumaSeq(s) == IF s = <<>> THEN 0 ELSE Head(s) + SumaSeq(Tail(s))

RECURSIVE SumaValor(_)
SumaValor(S) ==
    IF S = {} THEN 0
    ELSE LET r == CHOOSE x \in S : TRUE IN r.valor + SumaValor(S \ {r})

\* Sort keys: every column value becomes a tuple of integers, compared lexicographically.
\* A date is its month number; a text is its code points; NaN sorts after every text
\* (na_position='last').
ClaveFecha(f) == <<f>>

ClaveTexto(s) == IF isna(s) THEN <<1000>> ELSE [i \in 1..Len(s) |-> Ord(s[i])]

\* lexicographic order of two tuples of integers: a < b
EnterosMenor(a, b) ==
    LET n == IF Len(a) < Len(b) THEN Len(a) ELSE Len(b)
        iguales == {i \in 0..n : \A j \in 1..i : a[j] = b[j]}
        k == CHOOSE i \in iguales : \A j \in iguales : j <= i
    IN IF k = n THEN Len(a) < Len(b) ELSE a[k + 1] < b[k + 1]

\* lexicographic order of two keys (tuples of column keys of the same length)
RECURSIVE ClaveMenor(_, _)
ClaveMenor(k1, k2) ==
    IF k1 = <<>> THEN FALSE
    ELSE IF Head(k1) = Head(k2) THEN ClaveMenor(Tail(k1), Tail(k2))
    ELSE EnterosMenor(Head(k1), Head(k2))

\* a stable sort of the rows of df by their keys: rows of equal key keep the order of df
RECURSIVE OrdenEstable(_, _)
OrdenEstable(df, claves) ==
    IF df = <<>> THEN <<>>
    ELSE LET i == CHOOSE j \in 1..Len(df) :
                     /\ \A k \in 1..Len(df) : ~ClaveMenor(claves[k], claves[j])
                     /\ \A k \in 1..(j - 1) : ClaveMenor(claves[j], claves[k])
             quitar(q) == [k \in 1..(Len(q) - 1) |-> IF k < i THEN q[k] ELSE q[k + 1]]
         IN <<df[i]>> \o OrdenEstable(quitar(df), quitar(claves))

Cooperativas(df) == {df[i].cooperativa : i \in 1..Len(df)}

FechaMax(df, coop) ==
    CHOOSE f \in {df[i].fecha : i \in {j \in 1..Len(df) : df[j].cooperativa = coop}} :
        \A i \in 1..Len(df) : df[i].cooperativa = coop => df[i].fecha <= f

\* the tier of the first row of the institution, whatever its date
PrimerSegmento(df) ==
    { [c \in Cooperativas(df) |->
          df[CHOOSE i \in 1..Len(df) :
                 /\ df[i].cooperativa = c
                 /\ \A j \in 1..(i - 1) : df[j].cooperativa # c].segmento] }

\* sort_values('fecha').drop_duplicates(subset=['cooperativa'], keep='last'): the sort
\* of one column is not stable, so among the rows of an institution's latest date any
\* one may come last; each function here is one possible outcome
UltimoSegmento(df) ==
    { u \in [Cooperativas(df) -> {df[i].segmento : i \in 1..Len(df)}] :
        \A c \in Cooperativas(df) :
            \E i \in 1..Len(df) : /\ df[i].cooperativa = c
                                  /\ df[i].fecha = FechaMax(df, c)
                                  /\ df[i].segmento = u[c] }

\* df['segmento'] = df['cooperativa'].map(ultimo_segmento)
UnificarSegmento(df, u) ==
    [i \in 1..Len(df) |-> [df[i] EXCEPT !.segmento = u[df[i].cooperativa]]]

-----------------------------------------------------------------------------
(* Income-statement de-accumulator (procesar_pyg.py) *)

MaxObs == 13

MaxFilas == 2

Ventana == 12

Ausente == [hay |-> FALSE, v |-> 0]

Valor(x) == [hay |-> TRUE, v |-> x]

\* codigo.str.startswith(('4', '5'))
EsCuentaPyg(codigo) == codigo # <<>> /\ codigo[1] \in {"4", "5"}

ClaveGrupoPyg(r) == <<r.fecha, r.segmento, r.cooperativa, r.codigo, r.cuenta>>

OrdenGrupoPyg(k) ==
    <<ClaveFecha(k[1]), ClaveTexto(k[2]), ClaveTexto(k[3]), ClaveTexto(k[4]),
      ClaveTexto(k[5])>>

\* name canonicalization, then groupby([fecha, segmento, cooperativa, codigo, cuenta])
\* .agg(valor sum): one row per key, sorted by key; rows with a missing key are dropped
AgruparPyg(filas) ==
    LET norm == { [r EXCEPT !.cooperativa = normalizar_nombre_cooperativa(@)] :
                     r \in {x \in filas : EsCuentaPyg(x.codigo)} }
        validas == { r \in norm : ~isna(r.segmento) /\ ~isna(r.cooperativa)
                                    /\ ~isna(r.cuenta) }
        claves == { ClaveGrupoPyg(r) : r \in validas }
        fila(k) == [fecha |-> k[1], segmento |-> k[2], cooperativa |-> k[3],
                    codigo |-> k[4], cuenta |-> k[5],
                    valor |-> SumaValor({r \in norm : ClaveGrupoPyg(r) = k})]
        RECURSIVE Ordenadas(_)
        Ordenadas(K) ==
            IF K = {} THEN <<>>
            ELSE LET k == CHOOSE x \in K :
                              \A y \in K : ~ClaveMenor(OrdenGrupoPyg(y), OrdenGrupoPyg(x))
                 IN <<fila(k)>> \o Ordenadas(K \ {k})
    IN Ordenadas(claves)

\* sort_values(['cooperativa', 'codigo', 'fecha']): a sort on several columns is stable
OrdenarSeries(df) ==
    OrdenEstable(df, [i \in 1..Len(df) |->
                        <<ClaveTexto(df[i].cooperativa), ClaveTexto(df[i].codigo),
                          ClaveFecha(df[i].fecha)>>])

\* groupby(['cooperativa', 'codigo', 'ano']) without the year
MismoGrupoSinAnio(r, s) ==
    r.cooperativa = s.cooperativa /\ r.codigo = s.codigo

\* groupby(['cooperativa', 'codigo', 'ano'])
MismoGrupoAnio(r, s) ==
    r.cooperativa = s.cooperativa /\ r.codigo = s.codigo /\ Anio(r.fecha) = Anio(s.fecha)

\* the value of the first row of the group instead of the previous one
ValorPrimero(df, i) ==
    LET previas == {j \in 1..(i - 1) : MismoGrupoAnio(df[j], df[i])}
    IN IF previas = {} THEN Ausente
       ELSE Valor(df[CHOOSE j \in previas : \A k \in previas : j <= k].valor_acumulado)

\* groupby(...)['valor_acumulado'].shift(1): the value of the previous row of the group
ValorAnterior(df, i) ==
    LET previas == {j \in 1..(i - 1) : MismoGrupoAnio(df[j], df[i])}
    IN IF previas = {} THEN Ausente
       ELSE Valor(df[CHOOSE j \in previas : \A k \in previas : k <= j].valor_acumulado)

\* desacumular_valores
desacumular_valores(df0) ==
    LET df == OrdenarSeries(df0)
        acum == [i \in 1..Len(df) |->
                    [fecha |-> df[i].fecha, segmento |-> df[i].segmento,
                     cooperativa |-> df[i].cooperativa, codigo |-> df[i].codigo,
                     cuenta |-> df[i].cuenta, valor_acumulado |-> df[i].valor]]
    IN [i \in 1..Len(acum) |->
          LET anterior == ValorAnterior(acum, i)
          IN [fecha |-> acum[i].fecha, segmento |-> acum[i].segmento,
              cooperativa |-> acum[i].cooperativa, codigo |-> acum[i].codigo,
              cuenta |-> acum[i].cuenta, valor_acumulado |-> acum[i].valor_acumulado,
              valor_mes |-> IF Mes(acum[i].fecha) = 1 \/ ~anterior.hay
                            THEN acum[i].valor_acumulado
                            ELSE acum[i].valor_acumulado - anterior.v]]

\* rolling(window=12, min_periods=8): a partial window
SumaMovilParcial(df, i) ==
    LET grupo == {j \in 1..i : df[j].cooperativa = df[i].cooperativa
                               /\ df[j].codigo = df[i].codigo}
        ventana == {j \in grupo : Cardinality({k \in grupo : k >= j}) <= Ventana}
        RECURSIVE Suma(_)
        Suma(J) == IF J = {} THEN 0
                   ELSE LET j == CHOOSE x \in J : TRUE IN df[j].valor_mes + Suma(J \ {j})
    IN IF Cardinality(ventana) < 8 THEN Ausente ELSE Valor(Suma(ventana))

\* groupby(['cooperativa', 'codigo'])['valor_mes'].rolling(window=12, min_periods=12)
\* .sum() at row i: the sum over the row and the 11 before it in its group
SumaMovil(df, i) ==
    LET grupo == {j \in 1..i : df[j].cooperativa = df[i].cooperativa
                               /\ df[j].codigo = df[i].codigo}
        ventana == {j \in grupo : Cardinality({k \in grupo : k >= j}) <= Ventana}
        RECURSIVE Suma(_)
        Suma(J) == IF J = {} THEN 0
                   ELSE LET j == CHOOSE x \in J : TRUE IN df[j].valor_mes + Suma(J \ {j})
    IN IF Cardinality(ventana) < Ventana THEN Ausente ELSE Valor(Suma(ventana))

\* no rolling sum: the rows as desacumular_valores left them, sorted
calcular_sin_suma_movil(df0) == OrdenarSeries(df0)

\* calcular_suma_movil_12m
calcular_suma_movil_12m(df0) ==
    LET df == OrdenarSeries(df0)
    IN [i \in 1..Len(df) |->
          [fecha |-> df[i].fecha, segmento |-> df[i].segmento,
           cooperativa |-> df[i].cooperativa, codigo |-> df[i].codigo,
           cuenta |-> df[i].cuenta, valor_acumulado |-> df[i].valor_acumulado,
           valor_mes |-> df[i].valor_mes, valor_12m |-> SumaMovil(df, i)]]

\* the rows of indicadores_raw.parquet the runs start from: long monthly series ...
ValorPatron(k, f) ==
    IF k = 1 THEN 100 + 150 * (Mes(f) - 1)
    ELSE 3 * Mes(f) * Mes(f) + (Anio(f) % 2)

FilaSerie(coop, f, k) ==
    [fecha |-> f, segmento |-> SEGMENTO_1, cooperativa |-> coop, codigo |-> <<"4">>,
     cuenta |-> <<"G">>, valor |-> ValorPatron(k, f)]

\* n consecutive months from inicio, without the hueco-th one when hueco > 0
SerieLarga(inicio, n, hueco, k, con_b) ==
    {FilaSerie(<<"A">>, inicio + (j - 1), k) : j \in (1..n) \ {hueco}}
      \cup (IF con_b THEN {FilaSerie(<<"B">>, Fecha(2021, 1), k),
                           FilaSerie(<<"B">>, Fecha(2021, 2), k)}
            ELSE {})

SeriesLargas ==
    { SerieLarga(inicio, n, hueco, k, con_b) :
        n \in 1..MaxObs, hueco \in 0..(MaxObs - 1), k \in {1, 2}, con_b \in BOOLEAN,
        inicio \in {Fecha(2020, 1), Fecha(2020, 11)} }

\* ... and a few rows that differ in date, tier, raw name and label
FilasUniverso ==
    { [fecha |-> f, segmento |-> s, cooperativa |-> c, codigo |-> <<"4">>, cuenta |-> l,
       valor |-> IF c = <<"A"," ","L","I","M","I","T","A","D","A">> THEN 10 ELSE 30] :
        f \in {Fecha(2020, 1), Fecha(2020, 2)},
        s \in {SEGMENTO_1, SEGMENTO_2},
        c \in {<<"A"," ","L","I","M","I","T","A","D","A">>, <<"A"," ","L","T","D","A",".">>},
        l \in {<<"G">>, <<"H">>} }
    \cup { [fecha |-> Fecha(2020, 1), segmento |-> SEGMENTO_1, cooperativa |-> <<"B">>,
            codigo |-> <<"1">>, cuenta |-> <<"G">>, valor |-> 7],
          [fecha |-> Fecha(2020, 2), segmento |-> NaN, cooperativa |-> <<"B">>,
            codigo |-> <<"5">>, cuenta |-> <<"G">>, valor |-> 7],
          [fecha |-> Fecha(2020, 2), segmento |-> SEGMENTO_2, cooperativa |-> NaN,
            codigo |-> <<"5">>, cuenta |-> <<"G">>, valor |-> 7] }

\* the sets of 1 to MaxFilas rows of FilasUniverso
FilasVariadas == {{q[i] : i \in 1..MaxFilas} : q \in [1..MaxFilas -> FilasUniverso]}

InitPyg0 ==
    /\ (ind_raw \in SeriesLargas \/ ind_raw \in FilasVariadas)
    /\ pyg = <<>>
    /\ pyg_estado = "listo"

\* procesar_pyg: filter, canonicalize, aggregate, unify the tier, de-accumulate, rolling
\* sum, write pyg.parquet.  With no income-statement row left the column selection
\* raises and nothing is written.
ProcesarPyg ==
    /\ pyg_estado = "listo"
    /\ LET df == AgruparPyg(ind_raw)
       IN IF df = <<>>
          THEN pyg_estado' = "error" /\ pyg' = pyg
          ELSE /\ pyg_estado' = "ok"
               /\ \E u \in UltimoSegmento(df) :
                     pyg' = calcular_suma_movil_12m(
                                desacumular_valores(UnificarSegmento(df, u)))
    /\ UNCHANGED ind_raw

\* the rows procesar_todos_indicadores extracts are drawn from
FilasFuente ==
    { r \in FilasUniverso :
        (r.cuenta = <<"G">> /\ r.segmento # SEGMENTO_2) \/ r.codigo # <<"4">> }

\* the sets of 1 to MaxFilas rows of FilasFuente
FuentesVariadas == {{q[i] : i \in 1..MaxFilas} : q \in [1..MaxFilas -> FilasFuente]}

\* before the first run of either script neither file exists
InitArchivoPyg0 ==
    /\ ind_raw = {}
    /\ pyg = <<>>
    /\ pyg_estado = "listo"

\* procesar_todos_indicadores: with nothing extracted it returns; else it writes the rows
\* whose code starts with 4 or 5, if there are any, to pyg.parquet with the columns of
\* cols_pyg the rows have, in the order it read them, and every row to
\* indicadores_raw.parquet.  procesar_pyg can then be run on the new rows.
ExtraerIndicadores ==
    \E df_completo \in FuentesVariadas \cup {{}} :
        IF df_completo = {}
        THEN UNCHANGED <<ind_raw, pyg, pyg_estado>>
        ELSE LET df_pyg == {r \in df_completo : EsCuentaPyg(r.codigo)}
             IN /\ IF df_pyg = {}
                   THEN pyg' = pyg
                   ELSE \E q \in [1..Cardinality(df_pyg) -> df_pyg] :
                           /\ \A i, j \in DOMAIN q : q[i] = q[j] => i = j
                           /\ pyg' = q
                /\ ind_raw' = df_completo
                /\ pyg_estado' = "listo"

-----------------------------------------------------------------------------
(* Balance consolidator (procesar_balance_cooperativas.py) *)

MaxFilasBalance == 3

\* the text before the first sep in s: s.split(sep)[0]
RECURSIVE AntesDe(_, _)
AntesDe(s, sep) ==
    IF s = <<>> \/ Head(s) = sep THEN <<>>
    ELSE <<Head(s)>> \o AntesDe(Tail(s), sep)

\* int(s) for a text of decimal digits
RECURSIVE Entero(_)
Entero(s) ==
    IF s = <<>> THEN 0
    ELSE 10 * Entero(SubSeq(s, 1, Len(s) - 1)) + (Ord(s[Len(s)]) - Ord("0"))

\* str(n) for a natural number
RECURSIVE Decimal(_)
Decimal(n) ==
    IF n < 10 THEN <<Alfabeto[Ord("0") + n]>>
    ELSE Decimal(n \div 10) \o <<Alfabeto[Ord("0") + (n % 10)]>>

\* the name the downloader gives to the balance container of a year
nombre_zip_balance(anio) ==
    IF anio <= 2021 THEN Decimal(anio) \o <<"-","E","E","F","F","-","M","E","N",".","z","i","p">>
    ELSE Decimal(anio) \o <<"_","E","E","F","F","-","M","e","n",".","z","i","p">>

\* int(zip_path.name.split('-')[0].split('_')[0])
AnioArchivo(nombre) == Entero(AntesDe(AntesDe(nombre, "-"), "_"))

\* whether that int() returns: it raises ValueError unless the text is made of digits
AnioValido(nombre) ==
    LET t == AntesDe(AntesDe(nombre, "-"), "_")
    IN t # <<>> /\ \A i \in 1..Len(t) : t[i] \in Digitos

\* pd.to_numeric(..., errors='coerce').fillna(0) without the replacement of the comma
a_numero_sin_coma(texto) ==
    LET ent == AntesDe(texto, ".")
        dec == IF Len(ent) = Len(texto) THEN <<>>
               ELSE SubSeq(texto, Len(ent) + 2, Len(texto))
        lleno(d) == IF Len(d) = 0 THEN <<"0", "0">>
                    ELSE IF Len(d) = 1 THEN d \o <<"0">>
                    ELSE SubSeq(d, 1, 2)
        digitos(d) == \A k \in 1..Len(d) : d[k] \in Digitos
    IN IF digitos(ent) /\ digitos(dec) /\ Len(ent) + Len(dec) > 0
       THEN 100 * Entero(ent) + Entero(lleno(dec))
       ELSE 0

\* pd.to_numeric(texto.replace(',', '.'), errors='coerce').fillna(0), in hundredths:
\* digits with at most one decimal point are a number, any other text is 0
a_numero(texto) ==
    LET t == Replace(texto, <<",">>, <<".">>)
        ent == AntesDe(t, ".")
        dec == IF Len(ent) = Len(t) THEN <<>> ELSE SubSeq(t, Len(ent) + 2, Len(t))
        lleno(d) == IF Len(d) = 0 THEN <<"0", "0">>
                    ELSE IF Len(d) = 1 THEN d \o <<"0">>
                    ELSE SubSeq(d, 1, 2)
        digitos(d) == \A i \in 1..Len(d) : d[i] \in Digitos
    IN IF digitos(ent) /\ digitos(dec) /\ Len(ent) + Len(dec) > 0
       THEN 100 * Entero(ent) + Entero(lleno(dec))
       ELSE 0

\* procesar_dataframe: rename the columns, canonicalize the name, clean the amount and
\* the code (ruc and nivel are dropped before the table is written and are left out)
procesar_dataframe(df) ==
    [i \in 1..Len(df) |->
        [fecha       |-> df[i].FECHA_DE_CORTE,
         segmento    |-> df[i].SEGMENTO,
         cooperativa |-> normalizar_nombre(df[i].RAZON_SOCIAL),
         codigo      |-> Strip(df[i].CUENTA),
         cuenta      |-> df[i].DESCRIPCION_CUENTA,
         valor       |-> a_numero(df[i].SALDO_USD)]]

\* sorted(BALANCES_DIR.glob("*.zip")): the containers in file-name order
RECURSIVE Ordenados(_)
Ordenados(dir) ==
    IF dir = {} THEN <<>>
    ELSE LET z == CHOOSE x \in dir : \A y \in dir : ~StrLess(y.nombre, x.nombre)
         IN <<z>> \o Ordenados(dir \ {z})

\* df_historico['fecha'].max()
FechaMaxima(df) ==
    CHOOSE f \in {df[i].fecha : i \in 1..Len(df)} : \A i \in 1..Len(df) : df[i].fecha <= f

\* a date filter that also keeps the rows of the maximum date
EsNuevoInclusive(fecha, fecha_max) == fecha >= fecha_max

\* a date filter that skips the month after the maximum date
EsNuevoSaltaMes(fecha, fecha_max) == fecha > fecha_max + 1

\* df['fecha'] > fecha_max_existente
EsNuevo(fecha, fecha_max) == fecha > fecha_max

\* the loop over the selected containers: the rows each one contributes, in order; a
\* container that cannot be read, or whose file name has no year, raises inside the try
\* and contributes nothing; in incremental mode only the rows dated after the maximum
\* date of the existing table are kept
RECURSIVE LeerZips(_, _, _)
LeerZips(zs, incremental, fecha_max) ==
    IF zs = <<>> THEN <<>>
    ELSE LET z == Head(zs)
             df == procesar_dataframe(z.filas)
             df_nuevo == SelectSeq(df, LAMBDA r : EsNuevo(r.fecha, fecha_max))
             aporte == IF ~z.legible \/ ~AnioValido(z.nombre) THEN <<>>
                       ELSE IF incremental THEN df_nuevo
                       ELSE df
         IN aporte \o LeerZips(Tail(zs), incremental, fecha_max)

\* astype(str) on the text columns of the existing table: a missing value becomes 'nan'
ComoTexto(v) == IF isna(v) THEN <<"n", "a", "n">> ELSE v

Historico(df) ==
    [i \in 1..Len(df) |->
        [df[i] EXCEPT !.segmento = ComoTexto(@), !.cooperativa = ComoTexto(@),
                      !.codigo = ComoTexto(@), !.cuenta = ComoTexto(@)]]

\* an incremental run that selects every container of the directory
SeleccionarTodos(zs, incremental, fecha_max) == zs

\* the containers an incremental run selects: those of the year of the maximum date on
SeleccionarZips(zs, incremental, fecha_max) ==
    IF incremental /\ Len(zs) > 0
    THEN SelectSeq(zs, LAMBDA z : AnioArchivo(z.nombre) >= Anio(fecha_max))
    ELSE zs

\* df_final before the tier is unified, for an existing table prev and a directory dir;
\* <<>> stands for the failure of pd.concat on an empty list
DfFinal(prev, dir) ==
    LET incremental == prev.existe
        fecha_max == IF incremental THEN FechaMaxima(prev.filas) ELSE 0
        zs == SeleccionarZips(Ordenados(dir), incremental, fecha_max)
        nuevos == LeerZips(zs, incremental, fecha_max)
    IN IF incremental /\ nuevos # <<>> THEN Historico(prev.filas) \o nuevos
       ELSE IF incremental THEN prev.filas
       ELSE nuevos

\* the rows written in the order pd.concat left them
SinOrdenar(df) == df

\* sort_values(['fecha', 'segmento', 'cooperativa', 'codigo']).reset_index(drop=True)
OrdenarBalance(df) ==
    OrdenEstable(df, [i \in 1..Len(df) |->
                        <<ClaveFecha(df[i].fecha), ClaveTexto(df[i].segmento),
                          ClaveTexto(df[i].cooperativa), ClaveTexto(df[i].codigo)>>])

SinTabla == [existe |-> FALSE, filas |-> <<>>]

SinMetadata == [existe |-> FALSE, registros_totales |-> 0, fecha_max |-> 0,
                archivos_procesados |-> <<>>]

\* a run that writes the metadata before it concatenates the rows
generar_metadata_primero(prev, meta, dir) ==
    LET incremental == prev.existe
        fecha_max == IF incremental THEN FechaMaxima(prev.filas) ELSE 0
        zs == SeleccionarZips(Ordenados(dir), incremental, fecha_max)
        df_final == DfFinal(prev, dir)
        escrita == [existe |-> TRUE,
                    registros_totales |-> Len(df_final),
                    fecha_max |-> IF df_final = <<>> THEN 0 ELSE FechaMaxima(df_final),
                    archivos_procesados |-> [i \in 1..Len(zs) |-> zs[i].nombre]]
    IN IF incremental /\ \E z \in dir : ~AnioValido(z.nombre)
       THEN { [estado |-> "error", balance |-> prev, metadata |-> meta] }
       ELSE IF df_final = <<>>
       THEN { [estado |-> "error", balance |-> prev, metadata |-> escrita] }
       ELSE { [estado |-> "ok",
               balance |-> [existe |-> TRUE,
                            filas |-> OrdenarBalance(UnificarSegmento(df_final, u))],
               metadata |-> escrita] :
              u \in UltimoSegmento(df_final) }

\* generar_balance_parquet: every outcome a run can have from the existing table prev,
\* the existing metadata meta and the directory dir.  The run ends in an exception,
\* before anything is written, when the year filter of the incremental mode meets a
\* file name without a year (it is outside the try) or when pd.concat gets no rows.
generar_balance_parquet(prev, meta, dir) ==
    LET incremental == prev.existe
        fecha_max == IF incremental THEN FechaMaxima(prev.filas) ELSE 0
        zs == SeleccionarZips(Ordenados(dir), incremental, fecha_max)
        df_final == DfFinal(prev, dir)
    IN IF (incremental /\ \E z \in dir : ~AnioValido(z.nombre)) \/ df_final = <<>>
       THEN { [estado |-> "error", balance |-> prev, metadata |-> meta] }
       ELSE { [estado |-> "ok",
               balance |-> [existe |-> TRUE,
                            filas |-> OrdenarBalance(UnificarSegmento(df_final, u))],
               metadata |-> [existe |-> TRUE,
                             registros_totales |-> Len(df_final),
                             fecha_max |-> FechaMaxima(df_final),
                             archivos_procesados |->
                                 [i \in 1..Len(zs) |-> zs[i].nombre]]] :
              u \in UltimoSegmento(df_final) }

\* the rows the containers of the model are filled with
FilaCruda(f, s, n, c, v) ==
    [FECHA_DE_CORTE |-> f, SEGMENTO |-> s, RAZON_SOCIAL |-> n, CUENTA |-> c,
     DESCRIPCION_CUENTA |-> <<"F">>, SALDO_USD |-> v]

FilasCrudas ==
    LET a_limitada == <<"A"," ","L","I","M","I","T","A","D","A">>
        a_ltda_punto == <<"A"," ","L","T","D","A",".">>
        coop_b == <<"C","O","O","P","E","R","A","T","I","V","A"," ","D","E"," ","A","H","O","R","R","O"," ",
                  "Y"," ","C","R","E","D","I","T","O"," ","B">>
    IN { FilaCruda(Fecha(2020, 12), SEGMENTO_1, a_limitada, <<"1">>,
                   <<"1","0","0","0",",","5","0">>),
         FilaCruda(Fecha(2020, 12), SEGMENTO_2, a_ltda_punto, <<"1">>,
                   <<"6","0","0",",","0","0">>),
         FilaCruda(Fecha(2021, 1), SEGMENTO_2, a_limitada, <<"1","1">>, <<"2",",","5">>),
         FilaCruda(Fecha(2020, 12), NaN, coop_b, <<" ","1"," ">>, <<"x">>) }

\* the sequences of at most n elements of S
SecuenciasDe(S, n) == UNION {[1..k -> S] : k \in 0..n}

\* a container: its file name, whether it can be read, and the rows of its data file
\* (a container that can be read has at least one row)
Zip(anio, legible, filas) ==
    [nombre |-> nombre_zip_balance(anio), legible |-> legible, filas |-> filas]

RECURSIVE TotalFilas(_)
TotalFilas(dir) ==
    IF dir = {} THEN 0
    ELSE LET z == CHOOSE x \in dir : TRUE IN Len(z.filas) + TotalFilas(dir \ {z})

SinCorrida == [hay |-> FALSE, zips |-> {}]

InitBalance0 ==
    /\ zips = {}
    /\ balance = SinTabla
    /\ metadata = SinMetadata
    /\ balance_estado = "listo"
    /\ balance_previo = SinTabla
    /\ zips_ultima = SinCorrida
    /\ zips_previa = SinCorrida

\* descargar_zip: a container that was not in the directory is saved in it
DescargarZip ==
    /\ balance_estado # ""
    /\ \E anio \in {2020, 2021}, legible \in BOOLEAN,
          filas \in SecuenciasDe(FilasCrudas, MaxFilasBalance - TotalFilas(zips)) :
          /\ legible <=> filas # <<>>
          /\ \A y \in zips : y.nombre # nombre_zip_balance(anio)
          /\ zips' = zips \cup {Zip(anio, legible, filas)}
    /\ UNCHANGED <<balance, metadata, balance_estado, balance_previo, zips_ultima,
                   zips_previa>>

\* one run of generar_balance_parquet
GenerarBalance ==
    /\ balance_estado # ""
    /\ \E r \in generar_balance_parquet(balance, metadata, zips) :
          /\ balance' = r.balance
          /\ metadata' = r.metadata
          /\ balance_estado' = r.estado
    /\ balance_previo' = balance
    /\ zips_ultima' = [hay |-> TRUE, zips |-> zips]
    /\ zips_previa' = zips_ultima
    /\ UNCHANGED zips

-----------------------------------------------------------------------------
(* Balance consolidator, one run taken step by step: the run computes the  *)
(* table, df_final.to_parquet(output_path) opens the path of the table for *)
(* writing and either completes or fails, then the metadata are written.   *)
(* Any archive may have been put in the balances directory.                *)

MaxFilasCorrida == 2
MaxBorrados == 1

SinPendiente == [estado |-> "", balance |-> SinTabla, metadata |-> SinMetadata]

\* rows of a delimited-text data file: an institution, a clearing house of the
\* ignore-list
FilasAjenas ==
    { FilaCruda(Fecha(2021, 1), SEGMENTO_2, <<"A"," ","L","T","D","A">>, <<"1">>,
                <<"6","0","0",",","0","0">>),
      FilaCruda(Fecha(2020, 12), SEGMENTO_1, <<"C","O","N","A","F","I","P","S">>, <<"1">>,
                <<"5">>) }

\* leer_xlsm_balance: the names looked for in the file names of the workbooks
IGNORAR_XLSM == { <<"C","O","N","A","F","I","P","S">>, <<"F","I","N","A","N","C","O","O","P">> }

\* file names BALANCES_DIR.glob("*.zip") finds: the downloader's and one without a year
NombresAjenos ==
    { nombre_zip_balance(2021), <<"d","a","t","o","s",".","z","i","p">> }

InitCorrida0 ==
    /\ InitBalance0
    /\ archivo = "ausente"
    /\ escritura = "listo"
    /\ pendiente = SinPendiente
    /\ borrados = 0

\* an archive that was not in the balances directory is put in it, between two runs;
\* its data file has its rows in the order of their dates, one row for a date
CopiarZip ==
    /\ escritura \in {"listo", "hecho", "error", "fallo"}
    /\ \E nombre \in NombresAjenos, legible \in BOOLEAN,
          filas \in SecuenciasDe(FilasAjenas, MaxFilasCorrida - TotalFilas(zips)) :
          /\ legible <=> filas # <<>>
          /\ \A i, j \in 1..Len(filas) :
                i < j => filas[i].FECHA_DE_CORTE < filas[j].FECHA_DE_CORTE
          /\ \A y \in zips : y.nombre # nombre
          /\ zips' = zips \cup {[nombre |-> nombre, legible |-> legible, filas |-> filas]}
    /\ UNCHANGED <<balance, metadata, balance_estado, balance_previo, zips_ultima,
                   zips_previa, varsCorrida>>

\* the balances directory is emptied between two runs (the incremental mode exists so
\* that a run need not find the archives of the years already in the table)
BorrarZip ==
    /\ escritura \in {"listo", "hecho", "error", "fallo"}
    /\ zips # {} /\ borrados < MaxBorrados
    /\ zips' = {}
    /\ borrados' = borrados + 1
    /\ UNCHANGED <<balance, metadata, balance_estado, balance_previo, zips_ultima,
                   zips_previa, archivo, escritura, pendiente>>

\* generar_balance_parquet up to the call of to_parquet: the existing table is read
\* (a partial file makes read_parquet raise), the containers are read and df_final is
\* computed; an exception ends the run with nothing written, else to_parquet opens
\* the path of the table for writing and what is there is no longer a table
IniciarCorrida ==
    /\ escritura \in {"listo", "hecho", "error", "fallo"}
    /\ IF archivo = "parcial"
       THEN escritura' = "error" /\ UNCHANGED <<archivo, pendiente, balance, metadata>>
       ELSE \E r \in generar_balance_parquet(balance, metadata, zips) :
               IF r.estado = "error"
               THEN /\ escritura' = "error"
                    /\ balance' = r.balance /\ metadata' = r.metadata
                    /\ UNCHANGED <<archivo, pendiente>>
               ELSE /\ escritura' = "escribiendo" /\ archivo' = "parcial"
                    /\ pendiente' = r
                    /\ UNCHANGED <<balance, metadata>>
    /\ balance_previo' = balance
    /\ zips_ultima' = [hay |-> TRUE, zips |-> zips]
    /\ UNCHANGED <<zips, balance_estado, zips_previa, borrados>>

\* to_parquet completes and the metadata are written
CerrarSalida ==
    /\ escritura = "escribiendo"
    /\ archivo' = "completo"
    /\ balance' = pendiente.balance
    /\ metadata' = pendiente.metadata
    /\ escritura' = "hecho"
    /\ pendiente' = SinPendiente
    /\ UNCHANGED <<zips, balance_estado, balance_previo, zips_ultima, zips_previa,
                   borrados>>

\* to_parquet fails while writing (disk full, process killed): the partial file stays,
\* or the parquet writer removes it before the exception leaves the run
FallarEscritura ==
    /\ escritura = "escribiendo"
    /\ \/ archivo' = "parcial" /\ balance' = balance
       \/ archivo' = "ausente" /\ balance' = SinTabla
    /\ escritura' = "fallo"
    /\ pendiente' = SinPendiente
    /\ UNCHANGED <<zips, metadata, balance_estado, balance_previo, zips_ultima,
                   zips_previa, borrados>>

-----------------------------------------------------------------------------
(* Indicator extractor (procesar_camel.py) *)

MaxFilasCamel == 2

\* the lower-case letter of every upper-case letter
EnMinuscula ==
    [c \in {Mayusculas[i] : i \in 1..Len(Mayusculas)} |->
        Minusculas[CHOOSE i \in 1..Len(Mayusculas) : Mayusculas[i] = c]]

LowerChar(c) == IF c \in DOMAIN EnMinuscula THEN EnMinuscula[c] ELSE c

\* str.lower()
Lower(s) == [i \in 1..Len(s) |-> LowerChar(s[i])]

IGNORAR == <<<<"C","O","N","A","F","I","P","S">>, <<"F","I","N","A","N","C","O","O","P">>>>

\* source field -> (code, label, category)
INDICADORES_MAP ==
       ("I1_suficiencia_patrimonial" :> <<"SUF_PAT", "(Patrimonio + Resultados) / Activos Inmovilizados", "C - Capital">>)
    @@ ("I2_prop_act_impr_net" :> <<"ACT_IMPR", "Activos Improductivos Netos / Total Activos", "A - Calidad de Activos">>)
    @@ ("I3_prop_act_prod_net" :> <<"ACT_PROD", "Activos Productivos / Total Activos", "A - Calidad de Activos">>)
    @@ ("I4_uti_pas_cost_prod_gene" :> <<"AP_PC", "Activos Productivos / Pasivos con Costo", "A - Calidad de Activos">>)
    @@ ("I5_Moros_carte" :> <<"MOR_TOT", "Morosidad Total", "A - Morosidad">>)
    @@ ("Moros_carte_consu" :> <<"MOR_CONS", "Morosidad Consumo", "A - Morosidad">>)
    @@ ("I8_Moros_carte_inmob" :> <<"MOR_INMOB", "Morosidad Inmobiliaria", "A - Morosidad">>)
    @@ ("I9_Moros_carte_micro" :> <<"MOR_MICRO", "Morosidad Microcrédito", "A - Morosidad">>)
    @@ ("I10_Moros_carte_produ" :> <<"MOR_PROD", "Morosidad Productivo", "A - Morosidad">>)
    @@ ("I13_Moros_carte_vivi_ip" :> <<"MOR_VIV_IP", "Morosidad Vivienda Interés Público", "A - Morosidad">>)
    @@ ("I14_Moros_carte_educ" :> <<"MOR_EDU", "Morosidad Educativo", "A - Morosidad">>)
    @@ ("I15_Cober_carte" :> <<"COB_TOT", "Cobertura Total", "A - Cobertura">>)
    @@ ("Cober_carte_consu" :> <<"COB_CONS", "Cobertura Consumo", "A - Cobertura">>)
    @@ ("I18_Cober_carte_inmob" :> <<"COB_INMOB", "Cobertura Inmobiliaria", "A - Cobertura">>)
    @@ ("I19_Cober_carte_micro" :> <<"COB_MICRO", "Cobertura Microcrédito", "A - Cobertura">>)
    @@ ("I20_Cober_carte_produ" :> <<"COB_PROD", "Cobertura Productivo", "A - Cobertura">>)
    @@ ("I23_Cober_carte_vivi_ip" :> <<"COB_VIV_IP", "Cobertura Vivienda Interés Público", "A - Cobertura">>)
    @@ ("I24_Cober_carte_educ" :> <<"COB_EDU", "Cobertura Educativo", "A - Cobertura">>)
    @@ ("I25_Efici_opera" :> <<"GO_ACT", "Gastos Operación / Activo Promedio", "M - Management">>)
    @@ ("I26_Grad_abso" :> <<"GO_MNF", "Gastos Operación / Margen Financiero", "M - Management">>)
    @@ ("I27_Efic_adm_pers" :> <<"GP_ACT", "Gastos Personal / Activo Promedio", "M - Management">>)
    @@ ("I28_ROE" :> <<"ROE", "ROE", "E - Earnings">>)
    @@ ("I29_ROA" :> <<"ROA", "ROA", "E - Earnings">>)
    @@ ("I30_Interm_fin" :> <<"INTERM", "Intermediación Financiera", "E - Earnings">>)
    @@ ("I31_Marg_inter_est_patri" :> <<"MARG_PAT", "Margen Intermediación / Patrimonio", "E - Earnings">>)
    @@ ("I32_Marg_inter_est_activ" :> <<"MARG_ACT", "Margen Intermediación / Activo", "E - Earnings">>)
    @@ ("I34_Rend_cart_consu_x_venc" :> <<"REND_CONS", "Rendimiento Cartera Consumo", "E - Earnings">>)
    @@ ("I35_Rend_cart_inmob_x_venc" :> <<"REND_INMOB", "Rendimiento Cartera Inmobiliaria", "E - Earnings">>)
    @@ ("I36_Rend_cart_micro_x_venc" :> <<"REND_MICRO", "Rendimiento Cartera Microcrédito", "E - Earnings">>)
    @@ ("I37_Rend_cart_prod_x_venc" :> <<"REND_PROD", "Rendimiento Cartera Productivo", "E - Earnings">>)
    @@ ("I40_Rend_cart_vivie_x_venc" :> <<"REND_VIV", "Rendimiento Cartera Vivienda IP", "E - Earnings">>)
    @@ ("I41_Rend_cart_educ_x_venc" :> <<"REND_EDU", "Rendimiento Cartera Educativo", "E - Earnings">>)
    @@ ("I42_Cart_cred_ref_xven" :> <<"CART_REF", "Carteras de Créditos Refinanciadas", "A - Calidad de Activos">>)
    @@ ("I43_Cart_cred_reest" :> <<"CART_REEST", "Carteras de Créditos Reestructuradas", "A - Calidad de Activos">>)
    @@ ("I44_cartera_x_vencer" :> <<"CART_VENCER", "Cartera por Vencer Total", "A - Calidad de Activos">>)
    @@ ("I45_Fond_dis_sob_total_depo_cort_plz" :> <<"LIQ", "Fondos Disponibles / Depósitos CP", "L - Liquidez">>)
    @@ ("I46_Carte_impro_descu_rela_patri_resul" :> <<"VULN_PAT", "Cart. Improd. Descubierta / Patrimonio", "V - Vulnerabilidad">>)
    @@ ("I47_Carte_impr_patri_dic" :> <<"CART_IMPR_PAT", "Cartera Improductiva / Patrimonio", "V - Vulnerabilidad">>)
    @@ ("I48_FK" :> <<"FK", "FK", "V - Vulnerabilidad">>)
    @@ ("I49_FI" :> <<"FI", "FI", "V - Vulnerabilidad">>)
    @@ ("I50_Indi_capi_neto" :> <<"CAP_NETO", "Índice Capitalización Neto", "V - Vulnerabilidad">>)


MUTUALISTAS_NOMBRES ==
  <<
    << <<"A","M","B","A","T","O">>, <<"M","u","t","u","a","l","i","s","t","a"," ","A","m","b","a","t","o">> >>,
    << <<"A","Z","U","A","Y">>, <<"M","u","t","u","a","l","i","s","t","a"," ","A","z","u","a","y">> >>,
    << <<"I","M","B","A","B","U","R","A">>, <<"M","u","t","u","a","l","i","s","t","a"," ","I","m","b","a","b","u","r","a">> >>,
    << <<"P","I","C","H","I","N","C","H","A">>, <<"M","u","t","u","a","l","i","s","t","a"," ","P","i","c","h","i","n","c","h","a">> >>
  >>

MUTUALISTAS == {MUTUALISTAS_NOMBRES[i][1] : i \in 1..Len(MUTUALISTAS_NOMBRES)}

SEGMENTO_3 == <<"S","E","G","M","E","N","T","O"," ","3">>

SEGMENTO_1_MUTUALISTA == <<"S","E","G","M","E","N","T","O"," ","1"," ","M","U","T","U","A","L","I","S","T","A">>

DESCONOCIDO == <<"D","E","S","C","O","N","O","C","I","D","O">>

\* detectar_segmento
detectar_segmento(filename) ==
    LET filename_lower == Lower(filename)
        tiene(a, b) == Contains(filename_lower, a) \/ Contains(filename_lower, b)
    IN IF tiene(<<"s","e","g","m","e","n","t","o"," ","1">>, <<"s","e","g","m","e","n","t","o","_","1">>) THEN SEGMENTO_1
       ELSE IF tiene(<<"s","e","g","m","e","n","t","o"," ","2">>, <<"s","e","g","m","e","n","t","o","_","2">>) THEN SEGMENTO_2
       ELSE IF tiene(<<"s","e","g","m","e","n","t","o"," ","3">>, <<"s","e","g","m","e","n","t","o","_","3">>) THEN SEGMENTO_3
       ELSE IF Contains(filename_lower, <<"m","u","t","u","a","l","i","s","t","a">>) THEN SEGMENTO_1_MUTUALISTA
       ELSE DESCONOCIDO

\* es_archivo_ignorar
es_archivo_ignorar(filename) ==
    \E i \in 1..Len(IGNORAR) : Contains(Lower(filename), Lower(IGNORAR[i]))

\* the indicator fields of a cache, in column order: those that are in INDICADORES_MAP
indicator_cols(campos) == SelectSeq(campos, LAMBDA col : col \in DOMAIN INDICADORES_MAP)

\* df['NOM_RAZON_SOCIAL'].astype(str).str.contains('VT_TOTAL')
EsTotal(nom) == Contains(ComoTexto(nom), <<"V","T","_","T","O","T","A","L">>)

\* the segmento column of a workbook: the SEGMENTO field when the cache has it and it
\* is not missing on every row, else the tier detected from the file name
SegmentoFila(libro, filas, i, segmento) ==
    IF libro.con_segmento /\ ~(\A j \in 1..Len(filas) : isna(filas[j].SEGMENTO))
    THEN filas[i].SEGMENTO
    ELSE segmento

\* the renaming applied to every short name, whatever the tier of the row
NombreMutualistaSiempre(cooperativa, segmento) ==
    IF cooperativa \in MUTUALISTAS
    THEN MUTUALISTAS_NOMBRES[CHOOSE i \in 1..Len(MUTUALISTAS_NOMBRES) :
                                 MUTUALISTAS_NOMBRES[i][1] = cooperativa][2]
    ELSE cooperativa

\* a mutualista short name under a tier that contains MUTUALISTA gets its long name
NombreMutualista(cooperativa, segmento) ==
    IF cooperativa \in MUTUALISTAS /\ ~isna(segmento) /\ Contains(segmento, <<"M","U","T","U","A","L","I","S","T","A">>)
    THEN MUTUALISTAS_NOMBRES[CHOOSE i \in 1..Len(MUTUALISTAS_NOMBRES) :
                                 MUTUALISTAS_NOMBRES[i][1] = cooperativa][2]
    ELSE cooperativa

\* df.melt(...): for every indicator column in turn, one row per row of the workbook
RECURSIVE Melt(_, _)
Melt(df, cols) ==
    IF cols = <<>> THEN <<>>
    ELSE [i \in 1..Len(df) |->
             LET r == df[i]
             IN [cooperativa |-> r.cooperativa, segmento |-> r.segmento,
                 fecha |-> r.fecha, campo_original |-> Head(cols),
                 valor |-> r.valores[Head(cols)]]]
         \o Melt(df, Tail(cols))

\* procesar_xlsm_indicadores: the long rows of one workbook
procesar_xlsm_indicadores(libro, segmento) ==
    IF ~libro.con_cache \/ libro.filas = <<>> \/ indicator_cols(libro.campos) = <<>>
    THEN <<>>
    ELSE LET filas == SelectSeq(libro.filas, LAMBDA r : ~EsTotal(r.NOM_RAZON_SOCIAL))
             df == [i \in 1..Len(filas) |->
                      LET seg == SegmentoFila(libro, filas, i, segmento)
                      IN [cooperativa |->
                              NombreMutualista(
                                  normalizar_nombre_camel(filas[i].NOM_RAZON_SOCIAL), seg),
                          segmento |-> seg,
                          fecha |-> filas[i].FEC_CORTE,
                          valores |-> filas[i].valores]]
             df_melted == Melt(df, indicator_cols(libro.campos))
             validas == SelectSeq(df_melted, LAMBDA r : r.valor.hay /\ r.fecha.hay)
         IN [i \in 1..Len(validas) |->
               [cooperativa |-> validas[i].cooperativa,
                segmento    |-> validas[i].segmento,
                fecha       |-> validas[i].fecha.v,
                codigo      |-> INDICADORES_MAP[validas[i].campo_original][1],
                indicador   |-> INDICADORES_MAP[validas[i].campo_original][2],
                valor       |-> validas[i].valor.v,
                categoria   |-> INDICADORES_MAP[validas[i].campo_original][3]]]

\* the rows of the workbooks of one container, in the order of its name list
RECURSIVE ProcesarLibros(_)
ProcesarLibros(libros) ==
    IF libros = <<>> THEN <<>>
    ELSE LET libro == Head(libros)
         IN (IF es_archivo_ignorar(libro.nombre) THEN <<>>
             ELSE procesar_xlsm_indicadores(libro, detectar_segmento(libro.nombre)))
            \o ProcesarLibros(Tail(libros))

\* todos_los_datos concatenated: the containers in file-name order, a container that
\* cannot be opened contributing nothing
RECURSIVE DfCompleto(_)
DfCompleto(zs) ==
    IF zs = <<>> THEN <<>>
    ELSE (IF Head(zs).legible THEN ProcesarLibros(Head(zs).libros) ELSE <<>>)
         \o DfCompleto(Tail(zs))

ClaveIndicador(r) == <<r.cooperativa, r.fecha, r.codigo>>

\* drop_duplicates(subset=['cooperativa', 'fecha', 'codigo'], keep='first')
PrimeroPorClave(df) ==
    LET I == {i \in 1..Len(df) :
                 \A j \in 1..(i - 1) : ClaveIndicador(df[j]) # ClaveIndicador(df[i])}
        RECURSIVE EnOrdenDe(_)
        EnOrdenDe(J) == IF J = {} THEN <<>>
                        ELSE LET i == CHOOSE x \in J : \A y \in J : x <= y
                             IN <<df[i]>> \o EnOrdenDe(J \ {i})
    IN EnOrdenDe(I)

\* drop_duplicates(subset=['cooperativa', 'fecha', 'codigo'], keep='last')
UltimoPorClave(df) ==
    LET I == {i \in 1..Len(df) :
                 \A j \in (i + 1)..Len(df) : ClaveIndicador(df[j]) # ClaveIndicador(df[i])}
        RECURSIVE EnOrdenDe(_)
        EnOrdenDe(J) == IF J = {} THEN <<>>
                        ELSE LET i == CHOOSE x \in J : \A y \in J : x <= y
                             IN <<df[i]>> \o EnOrdenDe(J \ {i})
    IN EnOrdenDe(I)

\* the wide rows the workbooks of the model are filled with
FilaAncha(nom, fec, seg, roe, roa) ==
    [NOM_RAZON_SOCIAL |-> nom, FEC_CORTE |-> fec, SEGMENTO |-> seg,
     valores |-> ("I28_ROE" :> roe) @@ ("I29_ROA" :> roa) @@ ("COD_X" :> Valor(1))]

FilasAnchas ==
    LET a_limitada == <<"A"," ","L","I","M","I","T","A","D","A">>
        a_ltda == <<"A"," ","L","T","D","A">>
        coop_a == <<"C","O","O","P","E","R","A","T","I","V","A"," ","D","E"," ","A","H","O","R","R","O"," ",
                  "Y"," ","C","R","E","D","I","T","O"," ","A"," ","L","T","D","A",".">>
    IN { FilaAncha(a_limitada, Valor(Fecha(2020, 12)), SEGMENTO_1, Valor(5), Valor(3)),
         FilaAncha(a_ltda, Valor(Fecha(2020, 12)), SEGMENTO_2, Valor(7), Ausente),
         FilaAncha(coop_a, Valor(Fecha(2021, 1)), NaN, Valor(9), Valor(3)),
         FilaAncha(<<"A","M","B","A","T","O">>, Valor(Fecha(2020, 12)), NaN, Valor(5), Ausente),
         FilaAncha(a_ltda, Ausente, SEGMENTO_1, Valor(5), Valor(3)),
         FilaAncha(<<"V","T","_","T","O","T","A","L">>, Valor(Fecha(2020, 12)), SEGMENTO_1, Valor(1), Valor(1)) }

Libro(nombre, con_segmento, filas) ==
    [nombre |-> nombre, con_cache |-> TRUE, con_segmento |-> con_segmento,
     campos |-> <<"COD_X", "I28_ROE", "I29_ROA">>, filas |-> filas]

\* the name the downloader gives to the indicator container of a year
nombre_zip_indicadores(anio) == Decimal(anio) \o <<"-","E","E","F","F","-","M","E","N",".","z","i","p">>

\* the directory of the model: the container of 2020 with a tier-1 workbook and a
\* second workbook, the container of 2021 with a tier-2 workbook
Directorio(qa, nb, qb, l, qc) ==
    { [nombre |-> nombre_zip_indicadores(2020), legible |-> TRUE,
       libros |-> <<Libro(<<"S","e","g","m","e","n","t","o"," ","1",".","x","l","s","m">>, TRUE, qa), Libro(nb, FALSE, qb)>>],
      [nombre |-> nombre_zip_indicadores(2021), legible |-> l,
       libros |-> <<Libro(<<"S","e","g","m","e","n","t","o"," ","2",".","x","l","s","m">>, TRUE, qc)>>] }

LibrosB ==
    {<<"M","u","t","u","a","l","i","s","t","a","s",".","x","l","s","m">>,
     <<"C","O","N","A","F","I","P","S",".","x","l","s","m">>}

\* at most MaxFilasCamel rows, dealt in order to the three workbooks
InitCamel0 ==
    /\ \E q \in SecuenciasDe(FilasAnchas, MaxFilasCamel) :
          \E i \in 0..Len(q), nb \in LibrosB, l \in BOOLEAN :
             \E j \in i..Len(q) :
                indicadores_dir = Directorio(SubSeq(q, 1, i), nb, SubSeq(q, i + 1, j), l,
                                             SubSeq(q, j + 1, Len(q)))
    /\ indicadores = <<>>
    /\ camel_estado = "listo"

\* procesar_todos_indicadores: read every container, unify the tier, deduplicate,
\* write indicadores.parquet; with no row extracted nothing is written
ProcesarCamel ==
    /\ camel_estado = "listo"
    /\ LET df_completo == DfCompleto(Ordenados(indicadores_dir))
       IN IF df_completo = <<>>
          THEN camel_estado' = "sin datos" /\ indicadores' = indicadores
          ELSE /\ camel_estado' = "ok"
               /\ \E u \in UltimoSegmento(df_completo) :
                     indicadores' = UltimoPorClave(UnificarSegmento(df_completo, u))
    /\ UNCHANGED indicadores_dir

-----------------------------------------------------------------------------
(* Download script (descargar_datos_seps.py): one run of main, taken up to  *)
(* the request of the archive and then by the way the request ends. A file  *)
(* holds the data of a year; the download_id of a link is the year whose    *)
(* archive the link serves.                                                 *)

\* a complete archive with the data of a year: the one already in the directory
\* ("previo") or the one this run downloads ("nuevo")
Contenido(anio, version) == [anio |-> anio, version |-> version]

\* what open(destino, "wb") leaves when the transfer does not finish
Parcial == [anio |-> 0, version |-> "parcial"]

Existe(dir, nombre) == \E f \in dir : f.nombre = nombre

Leer(dir, nombre) == (CHOOSE f \in dir : f.nombre = nombre).contenido

\* Path.unlink
unlink(dir, nombre) == {f \in dir : f.nombre # nombre}

\* open(nombre, "wb") and the writes: the file holds the content, replacing any other
escribir(dir, nombre, contenido) ==
    unlink(dir, nombre) \cup {[nombre |-> nombre, contenido |-> contenido]}

\* Path.rename where the target is replaced when it exists
rename(dir, nombre, nuevo) == escribir(unlink(dir, nombre), nuevo, Leer(dir, nombre))

\* Path.with_suffix: the text from the last period on is replaced by the suffix
with_suffix(nombre, suffix) ==
    LET puntos == {i \in 1..Len(nombre) : nombre[i] = "."}
    IN IF puntos = {} THEN nombre \o suffix
       ELSE SubSeq(nombre, 1, (CHOOSE i \in puntos : \A j \in puntos : j <= i) - 1) \o suffix

ZIP_BAK == <<".","z","i","p",".","b","a","k">>

\* hay_datos_nuevos: whether the data do not yet reach the month before the current one
hay_datos_nuevos(fecha_max, anio, mes_actual) ==
    IF ~fecha_max.hay THEN TRUE
    ELSE LET mes_esperado == IF mes_actual > 1 THEN mes_actual - 1 ELSE 12
             anio_esperado == IF mes_actual > 1 THEN anio ELSE anio - 1
         IN ~(Anio(fecha_max.v) = anio_esperado /\ Mes(fecha_max.v) >= mes_esperado)

\* scrape_download_id: the link of the year, when the portal answers and lists it
scrape_download_id(web, anio) ==
    IF web.alcanzable /\ anio \in web.enlaces THEN Valor(anio) ELSE Ausente

\* main, the search of the link: the current year, and in January the year before
BuscarEnlace(web, anio, mes) ==
    LET id == scrape_download_id(web, anio)
    IN IF ~id.hay /\ mes = 1 THEN scrape_download_id(web, anio - 1) ELSE id

\* main: the path the archive is saved at
destino_zip == nombre_zip_balance(ahora.anio)

backup == with_suffix(destino_zip, ZIP_BAK)

AniosPortal == {2021, 2022}

InitDescarga0 ==
    /\ ahora \in {[anio |-> 2022, mes |-> m] : m \in {1, 2}}
    /\ fecha_max_datos \in
          {Ausente} \cup {Valor(Fecha(2021, 11)), Valor(Fecha(2021, 12)), Valor(Fecha(2022, 1))}
    /\ portal \in [alcanzable : BOOLEAN, enlaces : SUBSET AniosPortal]
    /\ \E previos \in SUBSET AniosPortal :
          carpeta = {[nombre |-> nombre_zip_balance(y), contenido |-> Contenido(y, "previo")] :
                        y \in previos}
    /\ carpeta_antes = carpeta
    /\ download_id = Ausente
    /\ paso = "listo"

\* main up to the call of descargar_zip: exit 2 with nothing new, exit 1 with no
\* link, else the archive in place is renamed to its backup and the request starts
IniciarDescarga ==
    /\ paso = "listo"
    /\ carpeta_antes' = carpeta
    /\ IF ~hay_datos_nuevos(fecha_max_datos, ahora.anio, ahora.mes)
       THEN paso' = "exit 2" /\ UNCHANGED <<download_id, carpeta>>
       ELSE LET id == BuscarEnlace(portal, ahora.anio, ahora.mes)
            IN IF ~id.hay
               THEN paso' = "exit 1" /\ UNCHANGED <<download_id, carpeta>>
               ELSE /\ download_id' = id
                    /\ carpeta' = IF Existe(carpeta, destino_zip)
                                  THEN rename(carpeta, destino_zip, backup)
                                  ELSE carpeta
                    /\ paso' = "descargando"
    /\ UNCHANGED <<ahora, fecha_max_datos, portal>>

\* main after descargar_zip returned False: the backup is restored, exit 1
RestaurarBackup(dir) == IF Existe(dir, backup) THEN rename(dir, backup, destino_zip) ELSE dir

\* descargar_zip returns True: the archive of the link is at the path, the backup is
\* removed, exit 0
DescargaCompleta ==
    /\ paso = "descargando"
    /\ carpeta' = unlink(escribir(carpeta, destino_zip, Contenido(download_id.v, "nuevo")),
                         backup)
    /\ paso' = "exit 0"
    /\ UNCHANGED <<ahora, fecha_max_datos, portal, carpeta_antes, download_id>>

\* descargar_zip returns False: the request fails or answers HTML and nothing is
\* written, or the transfer breaks with a RequestException after the file was opened
\* and the partial file is removed
DescargaFallida ==
    /\ paso = "descargando"
    /\ \E abierto \in BOOLEAN :
          carpeta' = RestaurarBackup(
                        IF abierto
                        THEN unlink(escribir(carpeta, destino_zip, Parcial), destino_zip)
                        ELSE carpeta)
    /\ paso' = "exit 1"
    /\ UNCHANGED <<ahora, fecha_max_datos, portal, carpeta_antes, download_id>>

\* open or write raises OSError, which descargar_zip does not catch and main does not
\* either: the script ends with the exception, with the partial file when the file
\* had been opened
EscrituraFallida ==
    /\ paso = "descargando"
    /\ \E abierto \in BOOLEAN :
          carpeta' = IF abierto THEN escribir(carpeta, destino_zip, Parcial) ELSE carpeta
    /\ paso' = "excepcion"
    /\ UNCHANGED <<ahora, fecha_max_datos, portal, carpeta_antes, download_id>>

-----------------------------------------------------------------------------
(* Specifications: each part of the pipeline runs on its own; the state of  *)
(* the parts that do not run stays idle.                                    *)

OciosoNombre == piezas = <<>> /\ variante = "" /\ nombres = <<>>

OciosoJerarquia ==
    cuentas = <<>> /\ pagina = "" /\ jerarquia = DictVacio /\ construida = FALSE

OciosoPyg == ind_raw = {} /\ pyg = <<>> /\ pyg_estado = ""

OciosoBalance ==
    /\ zips = {} /\ balance = SinTabla /\ metadata = SinMetadata /\ balance_estado = ""
    /\ balance_previo = SinTabla /\ zips_ultima = SinCorrida /\ zips_previa = SinCorrida

OciosoCamel == indicadores_dir = {} /\ indicadores = <<>> /\ camel_estado = ""

OciosoCorrida == archivo = "" /\ escritura = "" /\ pendiente = SinPendiente /\ borrados = 0

SinReloj == [anio |-> 0, mes |-> 0]

SinPortal == [alcanzable |-> FALSE, enlaces |-> {}]

OciosoDescarga ==
    /\ ahora = SinReloj /\ fecha_max_datos = Ausente /\ portal = SinPortal
    /\ carpeta = {} /\ carpeta_antes = {} /\ download_id = Ausente /\ paso = ""

InitNombre ==
    InitNombre0 /\ OciosoJerarquia /\ OciosoPyg /\ OciosoBalance /\ OciosoCamel /\ OciosoDescarga
    /\ OciosoCorrida

NextNombre ==
    Canonicalizar /\ UNCHANGED <<varsJerarquia, varsPyg, varsBalance, varsCamel, varsCorrida, varsDescarga>>

SpecNombre == InitNombre /\ [][NextNombre]_vars

InitJerarquia ==
    InitJerarquia0 /\ OciosoNombre /\ OciosoPyg /\ OciosoBalance /\ OciosoCamel /\ OciosoDescarga
    /\ OciosoCorrida

NextJerarquia ==
    ConstruirJerarquia /\ UNCHANGED <<varsNombre, varsPyg, varsBalance, varsCamel, varsCorrida, varsDescarga>>

SpecJerarquia == InitJerarquia /\ [][NextJerarquia]_vars

InitPyg ==
    InitPyg0 /\ OciosoNombre /\ OciosoJerarquia /\ OciosoBalance /\ OciosoCamel /\ OciosoDescarga
    /\ OciosoCorrida

NextPyg ==
    ProcesarPyg /\ UNCHANGED <<varsNombre, varsJerarquia, varsBalance, varsCamel, varsCorrida, varsDescarga>>

SpecPyg == InitPyg /\ [][NextPyg]_vars

InitBalance ==
    InitBalance0 /\ OciosoNombre /\ OciosoJerarquia /\ OciosoPyg /\ OciosoCamel /\ OciosoDescarga
    /\ OciosoCorrida

NextBalance ==
    \/ DescargarZip
          /\ UNCHANGED <<varsNombre, varsJerarquia, varsPyg, varsCamel, varsCorrida, varsDescarga>>
    \/ GenerarBalance
          /\ UNCHANGED <<varsNombre, varsJerarquia, varsPyg, varsCamel, varsCorrida, varsDescarga>>

SpecBalance == InitBalance /\ [][NextBalance]_vars

InitCamel ==
    InitCamel0 /\ OciosoNombre /\ OciosoJerarquia /\ OciosoPyg /\ OciosoBalance /\ OciosoDescarga
    /\ OciosoCorrida

NextCamel ==
    ProcesarCamel /\ UNCHANGED <<varsNombre, varsJerarquia, varsPyg, varsBalance, varsCorrida, varsDescarga>>

SpecCamel == InitCamel /\ [][NextCamel]_vars

\* the three consolidations, each from its own initial state
InitTablas == InitBalance \/ InitPyg \/ InitCamel

NextTablas == NextBalance \/ NextPyg \/ NextCamel

SpecTablas == InitTablas /\ [][NextTablas]_vars

InitCorrida ==
    InitCorrida0 /\ OciosoNombre /\ OciosoJerarquia /\ OciosoPyg /\ OciosoCamel /\ OciosoDescarga

NextCorrida ==
    \/ CopiarZip /\ UNCHANGED <<varsNombre, varsJerarquia, varsPyg, varsCamel, varsDescarga>>
    \/ BorrarZip /\ UNCHANGED <<varsNombre, varsJerarquia, varsPyg, varsCamel, varsDescarga>>
    \/ IniciarCorrida /\ UNCHANGED <<varsNombre, varsJerarquia, varsPyg, varsCamel, varsDescarga>>
    \/ CerrarSalida /\ UNCHANGED <<varsNombre, varsJerarquia, varsPyg, varsCamel, varsDescarga>>
    \/ FallarEscritura /\ UNCHANGED <<varsNombre, varsJerarquia, varsPyg, varsCamel, varsDescarga>>

SpecCorrida == InitCorrida /\ [][NextCorrida]_vars

\* pyg.parquet under runs of procesar_indicadores.py and procesar_pyg.py in any order
InitArchivoPyg ==
    /\ InitArchivoPyg0
    /\ OciosoNombre /\ OciosoJerarquia /\ OciosoBalance /\ OciosoCamel /\ OciosoDescarga /\ OciosoCorrida

NextArchivoPyg ==
    \/ ExtraerIndicadores
          /\ UNCHANGED <<varsNombre, varsJerarquia, varsBalance, varsCamel, varsCorrida, varsDescarga>>
    \/ ProcesarPyg
          /\ UNCHANGED <<varsNombre, varsJerarquia, varsBalance, varsCamel, varsCorrida, varsDescarga>>

SpecArchivoPyg == InitArchivoPyg /\ [][NextArchivoPyg]_vars

InitDescarga ==
    InitDescarga0 /\ OciosoNombre /\ OciosoJerarquia /\ OciosoPyg /\ OciosoBalance
    /\ OciosoCamel /\ OciosoCorrida

NextDescarga ==
    \/ IniciarDescarga
          /\ UNCHANGED <<varsNombre, varsJerarquia, varsPyg, varsBalance, varsCamel, varsCorrida>>
    \/ DescargaCompleta
          /\ UNCHANGED <<varsNombre, varsJerarquia, varsPyg, varsBalance, varsCamel, varsCorrida>>
    \/ DescargaFallida
          /\ UNCHANGED <<varsNombre, varsJerarquia, varsPyg, varsBalance, varsCamel, varsCorrida>>
    \/ EscrituraFallida
          /\ UNCHANGED <<varsNombre, varsJerarquia, varsPyg, varsBalance, varsCamel, varsCorrida>>

SpecDescarga == InitDescarga /\ [][NextDescarga]_vars

-----------------------------------------------------------------------------
(* Claims about the canonicalizers *)

\* C7: canonicalization is idempotent: canonicalizing the canonical form of any raw
\* name (balance and indicator canonicalizers) returns it unchanged.
C7_Idempotente ==
    (variante \in {"balance", "camel"} /\ Len(nombres) >= 3)
        => nombres[3] = nombres[2]

EsForma == piezas \in EntradasForma

NombreX == Piezas[piezas[4]]

\* a non-empty name with no leading, trailing or repeated whitespace and no
\* ' LIMITADA' in it
Limpio(x) == x # <<>> /\ Join(Split(x)) = x /\ ~Contains(x, LIMITADA)

\* C8 as stated: for every name X, prefix + X + ' LIMITADA' (optional period,
\* extra whitespace) canonicalizes to 'X LTDA'.
C8_TodoNombre ==
    (EsForma /\ variante = "balance" /\ Len(nombres) >= 2)
        => nombres[2] = NombreX \o LTDA

\* C8 amended: the same for every non-empty name X that has no leading, trailing or
\* repeated whitespace and does not itself contain ' LIMITADA'.
C8_NombreLimpio ==
    (EsForma /\ variante = "balance" /\ Len(nombres) >= 2 /\ Limpio(NombreX))
        => nombres[2] = NombreX \o LTDA

\* a lower-case prefix, extra whitespace and a period around the name X, canonicalized
C8_Testigo ==
    /\ piezas = <<2, 4, 2, 5, 2, 6, 7, 2>>
    /\ variante = "balance"
    /\ Len(nombres) >= 2
    /\ nombres[2] = <<"X"," ","L","T","D","A">>

\* C15: every canonicalizer returns the empty string for a missing name, so that
\* canonicalization puts no missing institution in a table.
C15_NuloVacio ==
    (piezas = EntradaNula /\ Len(nombres) >= 2) => nombres[2] = <<>>

\* C28: for every raw name (a text, not a missing value), the canonicalizers of the
\* Balance table, of the Income-Statement table and of the Indicator table return
\* the same canonical name.
C28_MismoNombre ==
    (piezas # EntradaNula /\ Len(nombres) >= 2) =>
       /\ normalizar_nombre(nombres[1]) = normalizar_nombre_camel(nombres[1])
       /\ normalizar_nombre(nombres[1]) = normalizar_nombre_cooperativa(nombres[1])
       /\ nombres[2] = normalizar_nombre(nombres[1])

-----------------------------------------------------------------------------
(* Claims about the account hierarchy *)

CodigosTabla == {cuentas[i][1] : i \in 1..Len(cuentas)}

Hijos(nodo) == DOMAIN nodo.subcuentas

\* every code that appears anywhere in the tree, at any level
CodigosArbol ==
    LET n1 == DOMAIN jerarquia
        n2 == UNION {Hijos(jerarquia[a]) : a \in n1}
        n3 == UNION {UNION {Hijos(jerarquia[a].subcuentas[b]) :
                               b \in Hijos(jerarquia[a])} : a \in n1}
        n4 == UNION {UNION {UNION {Hijos(jerarquia[a].subcuentas[b].subcuentas[c]) :
                                      c \in Hijos(jerarquia[a].subcuentas[b])} :
                               b \in Hijos(jerarquia[a])} : a \in n1}
    IN n1 \cup n2 \cup n3 \cup n4

\* the prefix that must be in the table for a code of 2, 4 or 6 characters
Padre(codigo) ==
    CASE Len(codigo) = 2 -> SubSeq(codigo, 1, 1)
      [] Len(codigo) = 4 -> SubSeq(codigo, 1, 2)
      [] Len(codigo) = 6 -> SubSeq(codigo, 1, 4)
      [] OTHER -> codigo

\* C9: a 2-digit code is only a child of the level-1 node of its first digit, a
\* 4-digit code only of the 2-digit node of its first two digits, a 6-digit code only of
\* the 4-digit node of its first four digits; a code whose parent prefix is not in the
\* tree (in particular one whose parent is not in the table) is nowhere in the tree.
C9_JerarquiaIntegra ==
    construida =>
      /\ \A a \in DOMAIN jerarquia :
            /\ Len(a) = 1 /\ a \in CodigosTabla
            /\ \A b \in Hijos(jerarquia[a]) :
                  /\ Len(b) = 2 /\ SubSeq(b, 1, 1) = a /\ b \in CodigosTabla
                  /\ \A c \in Hijos(jerarquia[a].subcuentas[b]) :
                        /\ Len(c) = 4 /\ SubSeq(c, 1, 2) = b /\ c \in CodigosTabla
                        /\ \A d \in Hijos(jerarquia[a].subcuentas[b].subcuentas[c]) :
                              Len(d) = 6 /\ SubSeq(d, 1, 4) = c /\ d \in CodigosTabla
      /\ \A x \in CodigosTabla :
            (Len(x) \in {2, 4, 6} /\ Padre(x) \notin CodigosArbol)
                => x \notin CodigosArbol

\* the full chain 1 > 11 > 1101 > 110105 is in the tree while 21, 1201 and 120105,
\* whose parents are not in the table, were dropped
C9_Testigo ==
    /\ construida /\ pagina = "balance"
    /\ {<<"2","1">>, <<"1","2","0","1">>, <<"1","2","0","1","0","5">>} \subseteq CodigosTabla
    /\ <<"1">> \in DOMAIN jerarquia
    /\ <<"1","1">> \in Hijos(jerarquia[<<"1">>])
    /\ <<"1","1","0","1">> \in Hijos(jerarquia[<<"1">>].subcuentas[<<"1","1">>])
    /\ <<"1","1","0","1","0","5">> \in
          Hijos(jerarquia[<<"1">>].subcuentas[<<"1","1">>].subcuentas[<<"1","1","0","1">>])
    /\ <<"2","1">> \notin CodigosArbol
    /\ <<"1","2","0","1","0","5">> \notin CodigosArbol

-----------------------------------------------------------------------------
(* Claims about the income-statement table *)

\* the row before row i in the table belongs to the same series and year
MismaSerieAnio(i, j) ==
    /\ pyg[i].cooperativa = pyg[j].cooperativa
    /\ pyg[i].codigo = pyg[j].codigo
    /\ Anio(pyg[i].fecha) = Anio(pyg[j].fecha)

\* C4: a January record has monthly-value = accumulated-value; a record that follows
\* the record of the previous month of the same year in its (institution, account-code)
\* series has monthly-value = accumulated-value minus that record's accumulated-value.
C4_Desacumulacion ==
    pyg_estado = "ok" =>
      \A i \in 1..Len(pyg) :
        /\ Mes(pyg[i].fecha) = 1 => pyg[i].valor_mes = pyg[i].valor_acumulado
        /\ (/\ Mes(pyg[i].fecha) # 1
            /\ i > 1
            /\ MismaSerieAnio(i, i - 1)
            /\ pyg[i - 1].fecha = pyg[i].fecha - 1)
              => pyg[i].valor_mes = pyg[i].valor_acumulado - pyg[i - 1].valor_acumulado

\* accumulated 100, 250, 400 for January to March gave monthly 100, 150, 150
C4_Testigo ==
    /\ pyg_estado = "ok"
    /\ \E i \in 1..Len(pyg) :
          /\ i + 2 <= Len(pyg)
          /\ pyg[i].fecha = Fecha(2020, 1) /\ pyg[i + 2].fecha = Fecha(2020, 3)
          /\ pyg[i].cooperativa = pyg[i + 2].cooperativa
          /\ <<pyg[i].valor_acumulado, pyg[i + 1].valor_acumulado,
               pyg[i + 2].valor_acumulado>> = <<100, 250, 400>>
          /\ <<pyg[i].valor_mes, pyg[i + 1].valor_mes, pyg[i + 2].valor_mes>>
                = <<100, 150, 150>>

\* the record of the calendar month before row i is missing from its series
MesPrevioAusente(i) ==
    \A j \in 1..Len(pyg) :
        ~(MismaSerieAnio(i, j) /\ pyg[j].fecha = pyg[i].fecha - 1)

SerieHasta(i) ==
    {j \in 1..i : pyg[j].cooperativa = pyg[i].cooperativa /\ pyg[j].codigo = pyg[i].codigo}

\* C6: in every (institution, account-code) group the trailing-12-month value is absent
\* on the first 11 observations and, from the 12th on, is the sum of the monthly-values
\* of the observation and the 11 before it.
C6_SumaMovil ==
    pyg_estado = "ok" =>
      \A i \in 1..Len(pyg) :
        LET n == Cardinality(SerieHasta(i))
        IN IF n < 12
           THEN ~pyg[i].valor_12m.hay
           ELSE /\ pyg[i].valor_12m.hay
                /\ SerieHasta(i) = (i - n + 1)..i
                /\ pyg[i].valor_12m.v
                      = SumaSeq([k \in 1..12 |-> pyg[i - 12 + k].valor_mes])

\* a series of 13 observations: absent on the 11th, defined on the 12th and the 13th
C6_Testigo ==
    /\ pyg_estado = "ok"
    /\ \E i \in 1..Len(pyg) :
          /\ Cardinality(SerieHasta(i)) = 13
          /\ pyg[i].valor_12m.hay /\ pyg[i - 1].valor_12m.hay
          /\ ~pyg[i - 2].valor_12m.hay
          /\ pyg[i].valor_12m.v # pyg[i - 1].valor_12m.v

RECURSIVE SumaMeses(_)
SumaMeses(J) ==
    IF J = {} THEN 0
    ELSE LET j == CHOOSE x \in J : TRUE IN pyg[j].valor_mes + SumaMeses(J \ {j})

\* the rows of the series of row i dated in the 12 calendar months that end at its date
EnDoceMeses(i) ==
    {j \in SerieHasta(i) : pyg[j].fecha > pyg[i].fecha - 12 /\ pyg[j].fecha <= pyg[i].fecha}

\* the last 12 rows of the series of row i, up to row i
UltimosDoce(i) ==
    {j \in SerieHasta(i) : Cardinality({k \in SerieHasta(i) : k >= j}) <= 12}

\* C23 as stated: where the trailing-12-month value is defined on a record dated d, its
\* series has a record for each of the 12 calendar months ending at d and the value is
\* the sum of their monthly-values; with a month missing in that span it is absent.
C23_DoceMeses ==
    pyg_estado = "ok" =>
      \A i \in 1..Len(pyg) :
        pyg[i].valor_12m.hay =>
            /\ \A k \in 0..11 : \E j \in SerieHasta(i) : pyg[j].fecha = pyg[i].fecha - k
            /\ pyg[i].valor_12m.v = SumaMeses(EnDoceMeses(i))

\* C23 amended: where the trailing-12-month value is defined on a record, its series has
\* at least 12 records up to it and the value is the sum of the monthly-values of the
\* last 12 of them, whatever their months.
C23_DoceRegistros ==
    pyg_estado = "ok" =>
      \A i \in 1..Len(pyg) :
        pyg[i].valor_12m.hay =>
            /\ Cardinality(UltimosDoce(i)) = 12
            /\ \A j \in UltimosDoce(i) : pyg[j].fecha <= pyg[i].fecha
            /\ pyg[i].valor_12m.v = SumaMeses(UltimosDoce(i))

\* a series of 12 records over 13 months, one month missing: the value is defined on the
\* last record and is the sum of all 12
C23_Testigo ==
    /\ pyg_estado = "ok"
    /\ \E i \in 1..Len(pyg) :
          /\ pyg[i].valor_12m.hay
          /\ Cardinality(SerieHasta(i)) = 12
          /\ Cardinality(EnDoceMeses(i)) = 11
          /\ pyg[i].valor_12m.v = SumaMeses(SerieHasta(i))

\* C24: the income-statement table holds at most one row for an institution, a date and
\* an account code, also when the code came with two labels or the institution under two
\* tiers on one date.
C24_UnaFilaPorClave ==
    pyg_estado = "ok" =>
      \A i \in 1..Len(pyg) : \A j \in 1..Len(pyg) :
        (/\ pyg[i].cooperativa = pyg[j].cooperativa
         /\ pyg[i].fecha = pyg[j].fecha
         /\ pyg[i].codigo = pyg[j].codigo) => i = j

-----------------------------------------------------------------------------
(* Claims about the consolidated tables *)

\* the latest run found the directory as the run before it did
CorridaRepetida == zips_previa.hay /\ zips_previa.zips = zips_ultima.zips

\* C1: a run of generar_balance_parquet that finds the same containers as the run
\* before it leaves the Balance table as that run wrote it: same rows, same values,
\* same order.
C1_CorridaRepetida == CorridaRepetida => balance = balance_previo

\* the second run found a table and a container of the year of its latest date, read
\* the container again and kept the table
C1_Testigo ==
    /\ CorridaRepetida
    /\ balance.existe /\ Len(balance.filas) >= 2
    /\ \E z \in zips_ultima.zips :
          /\ z.legible
          /\ AnioArchivo(z.nombre) >= Anio(FechaMaxima(balance.filas))
    /\ balance = balance_previo

\* the tables a run over dir produces when no table exists
TablasCompletas(dir) ==
    {r.balance : r \in generar_balance_parquet(SinTabla, SinMetadata, dir)}

\* the latest run found the containers zy and zy1 of two consecutive years and the
\* table that a run over zy alone produces
IncrementalDe(zy, zy1) ==
    /\ zips_ultima.hay /\ zips_ultima.zips = {zy, zy1}
    /\ AnioArchivo(zy1.nombre) = AnioArchivo(zy.nombre) + 1
    /\ balance_previo.existe
    /\ balance_previo \in TablasCompletas({zy})

FilasEnSuAnio(z) ==
    \A i \in 1..Len(z.filas) : Anio(z.filas[i].FECHA_DE_CORTE) = AnioArchivo(z.nombre)

SinSegmentoFaltante(z) == \A i \in 1..Len(z.filas) : ~isna(z.filas[i].SEGMENTO)

\* no institution has rows of different tiers on its latest date
SinEmpate(df) == Cardinality(UltimoSegmento(df)) = 1

TierUnificado(tabla, df) ==
    \A c \in Cooperativas(tabla) :
        \E i \in 1..Len(df) :
            /\ df[i].cooperativa = c
            /\ df[i].fecha = FechaMax(df, c)
            /\ \A j \in 1..Len(tabla) :
                  tabla[j].cooperativa = c => tabla[j].segmento = df[i].segmento

\* C3: in the Balance, Income-Statement and Indicator tables every institution carries
\* one tier on all of its rows, the tier reported on a row of the institution's latest
\* date (when the rows of that date differ in tier, the tier of one of them).
C3_TierUnificado ==
    /\ balance.existe =>
          TierUnificado(balance.filas, DfFinal(balance_previo, zips_ultima.zips))
    /\ pyg_estado = "ok" => TierUnificado(pyg, AgruparPyg(ind_raw))
    /\ camel_estado = "ok" =>
          TierUnificado(indicadores, DfCompleto(Ordenados(indicadores_dir)))

\* tiers [1, 1, 2] by increasing date became tier 2 on the three rows of the Balance
\* table
C3_Testigo ==
    /\ balance.existe
    /\ LET df == DfFinal(balance_previo, zips_ultima.zips)
       IN /\ Len(df) = 3 /\ Len(balance.filas) = 3
          /\ Cooperativas(df) = {df[1].cooperativa}
          /\ <<df[1].fecha, df[2].fecha, df[3].fecha>>
                = <<Fecha(2020, 12), Fecha(2020, 12), Fecha(2021, 1)>>
          /\ <<df[1].segmento, df[2].segmento, df[3].segmento>>
                = <<SEGMENTO_1, SEGMENTO_1, SEGMENTO_2>>
          /\ \A j \in 1..3 : balance.filas[j].segmento = SEGMENTO_2

\* C10: the Indicator table has at most one row per (institution, date, code), and
\* the row of a key carries the value of the last extracted row of that key, the
\* containers taken in file-name order, workbooks and rows in read order.
C10_UltimoGana ==
    camel_estado = "ok" =>
      LET df == DfCompleto(Ordenados(indicadores_dir))
      IN /\ \A i \in 1..Len(indicadores) : \A j \in 1..Len(indicadores) :
               ClaveIndicador(indicadores[i]) = ClaveIndicador(indicadores[j]) => i = j
         /\ \A k \in 1..Len(df) :
               (\A m \in (k + 1)..Len(df) : ClaveIndicador(df[m]) # ClaveIndicador(df[k]))
                  => \E i \in 1..Len(indicadores) :
                        /\ ClaveIndicador(indicadores[i]) = ClaveIndicador(df[k])
                        /\ indicadores[i].valor = df[k].valor
         /\ \A i \in 1..Len(indicadores) :
               \E k \in 1..Len(df) : ClaveIndicador(df[k]) = ClaveIndicador(indicadores[i])

\* two extracted rows of one key with different values gave one row with the later value
C10_Testigo ==
    /\ camel_estado = "ok"
    /\ LET df == DfCompleto(Ordenados(indicadores_dir))
       IN \E k \in 1..Len(df) : \E m \in (k + 1)..Len(df) :
             /\ ClaveIndicador(df[k]) = ClaveIndicador(df[m])
             /\ df[k].valor # df[m].valor
             /\ \A n \in (m + 1)..Len(df) : ClaveIndicador(df[n]) # ClaveIndicador(df[m])
             /\ \E i \in 1..Len(indicadores) :
                   /\ ClaveIndicador(indicadores[i]) = ClaveIndicador(df[m])
                   /\ indicadores[i].valor = df[m].valor

SenalMutualista(segmento) ==
    ~isna(segmento) /\ Contains(segmento, <<"M","U","T","U","A","L","I","S","T","A">>)

NombresLargos == {MUTUALISTAS_NOMBRES[i][2] : i \in 1..Len(MUTUALISTAS_NOMBRES)}

\* C25: among the rows the Indicator extractor yields (the workbooks hold short
\* names only), a row carries a canonical long mutualista name exactly when its
\* tier contains MUTUALISTA; a row under any other tier, or with a missing tier,
\* keeps the short name.
C25_NombreSegunSegmento ==
    LET df == DfCompleto(Ordenados(indicadores_dir))
    IN \A k \in 1..Len(df) :
          /\ df[k].cooperativa \in NombresLargos => SenalMutualista(df[k].segmento)
          /\ df[k].cooperativa \in MUTUALISTAS => ~SenalMutualista(df[k].segmento)

\* one run extracted AMBATO twice: renamed under the mutualista tier of its
\* workbook, and kept under the tier of another workbook
C25_Testigo ==
    /\ camel_estado = "ok"
    /\ LET df == DfCompleto(Ordenados(indicadores_dir))
       IN /\ \E k \in 1..Len(df) :
                /\ df[k].cooperativa = MUTUALISTAS_NOMBRES[1][2]
                /\ df[k].segmento = SEGMENTO_1_MUTUALISTA
          /\ \E k \in 1..Len(df) :
                /\ df[k].cooperativa = MUTUALISTAS_NOMBRES[1][1]
                /\ df[k].segmento = SEGMENTO_1
          /\ \E i \in 1..Len(indicadores) :
                indicadores[i].cooperativa = MUTUALISTAS_NOMBRES[1][2]

\* an extracted row of AMBATO whose tier is missing kept the short name
C25_TestigoSinSegmento ==
    /\ camel_estado = "ok"
    /\ LET df == DfCompleto(Ordenados(indicadores_dir))
       IN \E k \in 1..Len(df) :
             df[k].cooperativa = MUTUALISTAS_NOMBRES[1][1] /\ isna(df[k].segmento)

\* the number of categories the home page announces for the Indicator table
CategoriasAnunciadas == 7

\* the categories the static mapping assigns
CategoriasDelMapa == {INDICADORES_MAP[c][3] : c \in DOMAIN INDICADORES_MAP}

\* C26: every row of the Indicator table has one of the categories of the static
\* mapping, and the mapping assigns no more than 7 distinct categories.
C26_SieteCategorias ==
    /\ \A i \in 1..Len(indicadores) : indicadores[i].categoria \in CategoriasDelMapa
    /\ Cardinality(CategoriasDelMapa) <= CategoriasAnunciadas

\* C27: after a run, every row the Indicator extractor yielded has a tier that is
\* not missing: the tier of the embedded field where the field has a value for the
\* row, and else the tier implied by the name of the workbook, also in a workbook
\* whose embedded field is filled for some rows and empty for others.
C27_SegmentoPresente ==
    camel_estado = "ok" =>
      \A z \in indicadores_dir : \A n \in 1..Len(z.libros) :
         (z.legible /\ ~es_archivo_ignorar(z.libros[n].nombre)) =>
            LET libro == z.libros[n]
                implicado == detectar_segmento(libro.nombre)
                df == procesar_xlsm_indicadores(libro, implicado)
                dados == {libro.filas[i].SEGMENTO : i \in 1..Len(libro.filas)} \ {NaN}
            IN \A k \in 1..Len(df) :
                  /\ ~isna(df[k].segmento)
                  /\ df[k].segmento \in dados \cup {implicado}

-----------------------------------------------------------------------------
(* Claims about the rows and the runs of the balance consolidator *)

ClaveBalance(r) == <<r.cooperativa, r.fecha, r.codigo>>

\* no data file of the directory repeats a raw (name, date, code)
SinFilaRepetida(dir) ==
    \A z \in dir : \A i \in 1..Len(z.filas) : \A j \in 1..Len(z.filas) :
        (/\ z.filas[i].RAZON_SOCIAL = z.filas[j].RAZON_SOCIAL
         /\ z.filas[i].FECHA_DE_CORTE = z.filas[j].FECHA_DE_CORTE
         /\ z.filas[i].CUENTA = z.filas[j].CUENTA) => i = j

\* C11: the Balance table holds at most one row per (institution, reporting-date,
\* account-code), here for directories whose data files do not repeat a raw row: two
\* spellings of a name, or one period in two containers, are the cases left.
C11_FilaUnica ==
    (zips_ultima.hay /\ SinFilaRepetida(zips_ultima.zips)) =>
        \A i \in 1..Len(balance.filas) : \A j \in 1..Len(balance.filas) :
            ClaveBalance(balance.filas[i]) = ClaveBalance(balance.filas[j]) => i = j

\* C12: at every point of a run, a failure while writing included, what is at the path
\* of the Balance table is the complete table the run found or the complete new one.
C12_TablaCompleta ==
    /\ archivo # "parcial"
    /\ escritura = "fallo" => balance = balance_previo

\* the container is read without an exception
SeLee(z) == z.legible /\ AnioValido(z.nombre)

\* C13: a container that fails is skipped and the run still completes: a run that
\* found a readable table or a container that can be read did not end in an exception.
C13_FalloNoAborta ==
    (escritura = "error" /\ archivo # "parcial") =>
        ~(balance_previo.existe \/ \E z \in zips_ultima.zips : SeLee(z))

\* C14: a run that finds no table and no container that can be read ends in an
\* exception and leaves the path of the table and the metadata as it found them.
C14_ErrorFatal ==
    [][(IniciarCorrida /\ archivo = "ausente" /\ ~(\E z \in zips : SeLee(z)))
          => (/\ escritura' = "error"
              /\ archivo' = archivo /\ balance' = balance /\ metadata' = metadata)]_vars

\* a run found no table and only a container that cannot be read, ended in the
\* exception, and the metadata an earlier run wrote are still there
C14_Testigo ==
    /\ escritura = "error" /\ archivo = "ausente"
    /\ zips_ultima.hay /\ zips_ultima.zips = zips /\ zips # {}
    /\ ~(\E z \in zips : SeLee(z))
    /\ ~balance_previo.existe /\ ~balance.existe
    /\ metadata.existe


\* C17: no row of the balance table belongs to an institution of the ignore-list
\* (CONAFIPS, FINANCOOP), whichever format the row was read from.
C17_SinIgnoradas ==
    \A i \in 1..Len(balance.filas) : balance.filas[i].cooperativa \notin IGNORAR_XLSM

\* the amounts of the data files of the model, in hundredths
MontoEsperado(texto) ==
    CASE texto = <<"1","0","0","0",",","5","0">> -> 100050
      [] texto = <<"6","0","0",",","0","0">> -> 60000
      [] texto = <<"2",",","5">> -> 250
      [] texto = <<"x">> -> 0

PrimeraCorridaHecha == balance_estado = "ok" /\ zips_ultima.hay /\ ~balance_previo.existe

\* C18: every amount of the balance table is a number; a first run keeps every row of
\* every container it read, with "1000,50" as 1000.50, "600,00" as 600.00 and an amount
\* that is no number as 0.
C18_MontoNumero ==
    /\ \A i \in 1..Len(balance.filas) : balance.filas[i].valor \in Nat
    /\ PrimeraCorridaHecha =>
          /\ Len(balance.filas) = TotalFilas(zips_ultima.zips)
          /\ \A z \in zips_ultima.zips : \A i \in 1..Len(z.filas) :
                \E j \in 1..Len(balance.filas) :
                    /\ balance.filas[j].fecha = z.filas[i].FECHA_DE_CORTE
                    /\ balance.filas[j].codigo = Strip(z.filas[i].CUENTA)
                    /\ balance.filas[j].valor = MontoEsperado(z.filas[i].SALDO_USD)

\* a first run read "1000,50", "600,00" and "x" and wrote 1000.50, 600.00 and 0
C18_Testigo ==
    /\ PrimeraCorridaHecha
    /\ UNION {{z.filas[i].SALDO_USD : i \in 1..Len(z.filas)} : z \in zips_ultima.zips}
          = {<<"1","0","0","0",",","5","0">>, <<"6","0","0",",","0","0">>, <<"x">>}
    /\ {balance.filas[i].valor : i \in 1..Len(balance.filas)} = {100050, 60000, 0}

\* C19: the metadata a run writes list as processed exactly the containers the run
\* read; a container that failed is not listed as processed.
C19_SoloLeidos ==
    (balance_estado = "ok" /\ zips_ultima.hay) =>
        \A i \in 1..Len(metadata.archivos_procesados) :
            \E z \in zips_ultima.zips :
                z.nombre = metadata.archivos_procesados[i] /\ SeLee(z)

FilasDeFecha(df, f) == Cardinality({i \in 1..Len(df) : df[i].fecha = f})

FechasDe(df) == {df[i].fecha : i \in 1..Len(df)}

\* C20: an incremental run adds only rows dated after the maximum date of the table it
\* found: the maximum date does not decrease and no date the table had gets more rows.
C20_SoloFechasNuevas ==
    (zips_ultima.hay /\ balance_previo.existe) =>
        /\ FechaMaxima(balance.filas) >= FechaMaxima(balance_previo.filas)
        /\ \A f \in FechasDe(balance.filas) \cup FechasDe(balance_previo.filas) :
              IF f <= FechaMaxima(balance_previo.filas)
              THEN FilasDeFecha(balance.filas, f) = FilasDeFecha(balance_previo.filas, f)
              ELSE FilasDeFecha(balance_previo.filas, f) = 0

\* an incremental run found a container with a row of a date the table had and a row
\* of a later date, and added the later one only
C20_Testigo ==
    /\ zips_ultima.hay /\ balance_previo.existe
    /\ Len(balance.filas) = Len(balance_previo.filas) + 1
    /\ \E z \in zips_ultima.zips : \E i, j \in 1..Len(z.filas) :
          /\ z.legible
          /\ AnioArchivo(z.nombre) >= Anio(FechaMaxima(balance_previo.filas))
          /\ z.filas[i].FECHA_DE_CORTE <= FechaMaxima(balance_previo.filas)
          /\ z.filas[j].FECHA_DE_CORTE > FechaMaxima(balance_previo.filas)

IncrementalHecha == balance_estado = "ok" /\ zips_ultima.hay /\ balance_previo.existe

AnioMinimo == Anio(FechaMaxima(balance_previo.filas))

\* the rows of the containers of dir of the year anio on that can be read, dated after
\* fecha_max
RECURSIVE FilasNuevas(_, _, _)
FilasNuevas(dir, anio, fecha_max) ==
    IF dir = {} THEN 0
    ELSE LET z == CHOOSE x \in dir : TRUE
         IN (IF z.legible /\ AnioArchivo(z.nombre) >= anio
             THEN Cardinality({i \in 1..Len(z.filas) : z.filas[i].FECHA_DE_CORTE > fecha_max})
             ELSE 0)
            + FilasNuevas(dir \ {z}, anio, fecha_max)

\* C21: an incremental run takes as candidates exactly the containers whose file-name
\* year is not lower than the year of the maximum date of the table it found, and no row
\* of a container of a lower year is read into the table.
C21_SoloAniosNuevos ==
    IncrementalHecha =>
        /\ {metadata.archivos_procesados[i] : i \in 1..Len(metadata.archivos_procesados)}
             = {z.nombre : z \in {y \in zips_ultima.zips : AnioArchivo(y.nombre) >= AnioMinimo}}
        /\ Len(balance.filas)
             = Len(balance_previo.filas)
                 + FilasNuevas(zips_ultima.zips, AnioMinimo, FechaMaxima(balance_previo.filas))

\* an incremental run found a table that ends in 2021 and the containers of 2020 and
\* 2021, both readable, and took the one of 2021 only
C21_Testigo ==
    /\ IncrementalHecha
    /\ AnioMinimo = 2021
    /\ {z.nombre : z \in {y \in zips_ultima.zips : y.legible}}
         = {nombre_zip_balance(2020), nombre_zip_balance(2021)}
    /\ metadata.archivos_procesados = <<nombre_zip_balance(2021)>>

ClaveOrden(r) ==
    <<ClaveFecha(r.fecha), ClaveTexto(r.segmento), ClaveTexto(r.cooperativa),
      ClaveTexto(r.codigo)>>

\* C22: the rows of the balance table are in non-decreasing order of (fecha, segmento,
\* cooperativa, codigo), after a full run, an incremental run with new rows and an
\* incremental run with nothing new; the position of a row is its index.
C22_TablaOrdenada ==
    \A i \in 1..Len(balance.filas) : \A j \in 1..Len(balance.filas) :
        i < j => ~ClaveMenor(ClaveOrden(balance.filas[j]), ClaveOrden(balance.filas[i]))

\* a first run read a data file whose rows were not in the order of their dates and
\* wrote three rows
C22_Testigo ==
    /\ PrimeraCorridaHecha
    /\ Len(balance.filas) = 3
    /\ \E z \in zips_ultima.zips :
          /\ Len(z.filas) >= 2
          /\ z.filas[1].FECHA_DE_CORTE > z.filas[2].FECHA_DE_CORTE

-----------------------------------------------------------------------------
(* Claims about the files of the income statement *)

ColumnasPyg ==
    {"fecha", "segmento", "cooperativa", "codigo", "cuenta", "valor_acumulado",
     "valor_mes", "valor_12m"}

\* C16: after any sequence of runs of procesar_indicadores and procesar_pyg, the rows of
\* pyg.parquet have the columns fecha, segmento, cooperativa, codigo, cuenta,
\* valor_acumulado, valor_mes and valor_12m.
C16_ColumnasPyg == \A i \in 1..Len(pyg) : DOMAIN pyg[i] = ColumnasPyg


\* C16 amended: after a run of procesar_pyg that completes, and until the next run of
\* procesar_indicadores, the rows of pyg.parquet have those columns.
C16_ColumnasTrasPyg ==
    pyg_estado = "ok" => \A i \in 1..Len(pyg) : DOMAIN pyg[i] = ColumnasPyg

\* procesar_indicadores wrote two income-statement rows, then procesar_pyg completed
\* and wrote them with the columns of the income-statement table
C16_Testigo ==
    /\ pyg_estado = "ok"
    /\ Cardinality({r \in ind_raw : EsCuentaPyg(r.codigo)}) = 2
    /\ pyg # <<>>
    /\ \A i \in 1..Len(pyg) : DOMAIN pyg[i] = ColumnasPyg

-----------------------------------------------------------------------------
(* Claims about the download script *)

\* the run asked for the archive and did not end with exit 0
IntentoFallido == download_id.hay /\ paso \in {"exit 1", "excepcion"}

\* C29: when a download over an archive that was already in the directory ends
\* without success, the directory is as the run found it (the previous archive at
\* its path with its content, no partial file and no '.bak' file); after a
\* successful download no '.bak' file is left.
C29_ArchivoRestaurado ==
    /\ (IntentoFallido /\ Existe(carpeta_antes, destino_zip)) => carpeta = carpeta_antes
    /\ paso = "exit 0" => ~Existe(carpeta, backup)

\* C30: after a successful download, the archive saved holds the data of the year
\* its name carries, the year the consolidator reads from the name.
C30_AnioDelNombre ==
    paso = "exit 0" =>
       /\ Existe(carpeta, destino_zip)
       /\ Leer(carpeta, destino_zip).anio = AnioArchivo(destino_zip)

=============================================================================
